---------------------------- MODULE Spec2Model ----------------------------
(***************************************************************************)
(* Payment-job tracking of the Arduino-to-Cardano demo repository.         *)
(*                                                                         *)
(* Three services keep a job store and drive jobs through a lifecycle:     *)
(*   - the mock payment service (mock_payment_service.py), with the        *)
(*     optional smart-contract escrow (smart_contract_payment.py),         *)
(*   - the real payment service (real_payment_service.py) with its         *)
(*     confirmation monitor polling the Masumi gateway,                    *)
(*   - the unified payment service (unified_system.py).                    *)
(*                                                                         *)
(* All three are FastAPI applications: a request handler without an await  *)
(* runs to completion on the event loop, and a background task runs after  *)
(* the response, suspending only at asyncio.sleep.  One action therefore   *)
(* models one handler, or one run of a task between two suspension points. *)
(***************************************************************************)
EXTENDS Integers, Sequences, FiniteSets, TLC

VARIABLES
    \* ---- mock payment service -------------------------------------------
    USE_SMART_CONTRACTS,  \* module flag: the contract service was initialised
    mock_jobs,            \* mock_jobs: job_id -> job record
    payments,             \* SmartContractPaymentService.payments
    contract_utxos,       \* the unspent outputs at the contract's script address
    mock_tasks,           \* background tasks scheduled and still sleeping
    mock_now,             \* wall clock of the service, in whole seconds
    mock_seq,             \* number of payments created so far
    mock_event,           \* the last handler or task that ran, and its outcome
    \* ---- real payment service -------------------------------------------
    active_jobs,          \* active_jobs: job_id -> job record
    monitors,             \* process_transaction_confirmation tasks, by job
    real_seq,             \* number of jobs created so far
    real_event,           \* the last handler or task that ran, and its outcome
    \* ---- unified payment service ----------------------------------------
    blockfrost_available, \* SimpleBlockfrostClient.available
    payment_jobs,         \* payment_jobs: job_id -> job record
    uni_tasks,            \* simulate_confirmation tasks still sleeping
    uni_seq,              \* number of jobs created so far
    uni_event,            \* the last handler or task that ran, and its outcome
    \* ---- payment service (payment_service.py) --------------------------
    pay_mock_mode,        \* PaymentService.mock_mode
    pay_jobs,             \* PaymentService.active_jobs: job_id -> job record
    pay_tasks,            \* process_payment tasks the framework will run: job_id -> pc
    pay_seq,              \* number of jobs created so far
    pay_event,            \* the last handler or task that ran, and its outcome
    \* ---- seller agent (agents/agent_b.py) ------------------------------
    pending_transactions, \* AgentB.pending_transactions: tx_hash -> record
    monitor_threads,      \* monitor_transaction threads: tx_hash -> pc, attempt
    notifications,        \* tx_hash -> number of handle_confirmed_transaction calls
    agent_seq,            \* number of payments the agent initiated
    agent_event,          \* the last handler or thread step, and its outcome
    \* ---- buyer agent and router (agents/agent_a.py, agents/router.py) ---
    USE_MOCK_BEDROCK,     \* BedrockService.use_mock
    active_offers,        \* agent A's active_offers: offer_id -> offer
    offers_store,         \* the router's offers_store: offer_id -> offer
    offer_tasks,          \* send_offer_to_router tasks the framework will run
    offer_seq,            \* number of offers created so far
    buyer_event,          \* the last handler or task that ran, and its outcome
    \* ---- first seller agent (AgentB/agent_b.py) -------------------------
    seller_transactions,  \* AgentB.pending_transactions: tx_hash -> status
    poll_threads,         \* poll_and_confirm threads: tx_hash -> pc, attempt
    seller_seq,           \* number of payment requests sent
    seller_event,         \* the last handler or thread step, and its outcome
    \* ---- first router (Project/Project/router.py) -----------------------
    router_offers,        \* OfferManager.offers: offer_id -> status, metadata
    router_threads,       \* simulate_agent_b_response threads: offer_id -> pc
    router_seq,           \* number of offers created so far
    router_transactions,  \* OfferManager.transactions: the offer of hash n
    router_event          \* the last handler or thread step, and its outcome

varsMock == <<USE_SMART_CONTRACTS, mock_jobs, payments, contract_utxos, mock_tasks, mock_now,
              mock_seq, mock_event>>
varsReal == <<active_jobs, monitors, real_seq, real_event>>
varsUni  == <<blockfrost_available, payment_jobs, uni_tasks, uni_seq, uni_event>>
varsPay  == <<pay_mock_mode, pay_jobs, pay_tasks, pay_seq, pay_event>>
varsAgent == <<pending_transactions, monitor_threads, notifications,
               agent_seq, agent_event>>
varsBuyer == <<USE_MOCK_BEDROCK, active_offers, offers_store, offer_tasks,
               offer_seq, buyer_event>>
varsSeller == <<seller_transactions, poll_threads, seller_seq, seller_event>>
varsRouter == <<router_offers, router_threads, router_seq, router_transactions,
                router_event>>
vars     == <<varsMock, varsReal, varsUni, varsPay, varsAgent, varsBuyer, varsSeller, varsRouter>>

---------------------------------------------------------------------------
(* Bounds of the model. *)

MaxMockPayments == 2    \* payments the mock service creates
MaxMockTime == 1        \* seconds the mock service's clock advances
MaxRealJobs == 1        \* jobs the real service creates
MaxUniJobs == 2         \* jobs the unified service creates
MaxPayJobs == 2         \* jobs the payment service creates
MaxAgentPayments == 1   \* payments the seller agent initiates
MaxNotifications == 2   \* notifications the seller agent sends for one hash
MaxOffers == 2          \* offers the buyer agent creates
MaxSellerPayments == 2  \* payment requests the first seller agent sends
MaxRouterOffers == 2    \* offers the first router creates
MaxRouterTransactions == 3 \* transactions the first router records

---------------------------------------------------------------------------
(* Values shared by the services. *)

\* The configurations the services are started in: the mock service with
\* and without the smart-contract service, the unified service with and
\* without a Blockfrost project id.
MockConfigurations == BOOLEAN
UniConfigurations == BOOLEAN

\* Python's None in a field that otherwise holds a number.
None == -1
\* Python's None in a field that otherwise holds a transaction hash.
NoneHash == <<"None", 0>>
\* Python's None (or a missing key) in a field that otherwise holds a string.
NoneStr == "None"
\* No job id (a response that names no job).
NoJob == <<"none", 0, 0>>

\* Request inputs.  An address is valid for the mock and the unified service
\* when it starts with "addr1" or "addr_test".
Addresses == {"addr_test1qq9f4n4zk8gx", "invalid_address"}
Amounts == {-1000, 0, 1000000, 2000000}

\* str.startswith(("addr1", "addr_test")), tabulated on Addresses.
StartsWithAddrPrefix(address) ==
    address \in {"addr_test1qq9f4n4zk8gx", "addr1vr5f4n4zk8gx"}

\* pydantic Field(..., gt=0) on PaymentRequest.amount.
AmountAccepted(amount) == amount > 0

\* dict assignment d[k] = v.
Put(f, k, v) == [x \in (DOMAIN f) \cup {k} |-> IF x = k THEN v ELSE f[x]]

\* dict.update on one stored record.
Update(f, k, changes) ==
    [f EXCEPT ![k] = [fld \in DOMAIN f[k] |->
                        IF fld \in DOMAIN changes THEN changes[fld] ELSE f[k][fld]]]

EmptyMap == <<>>

---------------------------------------------------------------------------
(* The mock payment service and the smart-contract payment service. *)

\* generate_mock_tx_hash: one fixed hash.
MOCK_TX_HASH == <<"5288bde95f7f6d82", 0>>

\* generate_mock_job_id: "job_" + 16 hex digits of a fresh uuid4.
generate_mock_job_id(n) == <<"job", n, 0>>

\* initiate_payment's id: f"pay_{int(datetime.now().timestamp())}_{amount}".
PaymentId(timestamp, amount) == <<"pay", timestamp, amount>>

MockTerminal == {"confirmed", "failed", "cancelled"}

\* Mutant of CancelRejected: only a confirmed job is protected.
CancelRejected_OnlyConfirmed(status) == status = "confirmed"

\* Mutant of CancelRejected: a job locked to the contract is cancellable too.
CancelRejected_UnlessLocked(status) == status \notin {"pending", "locked_to_contract"}

\* cancel_job's guard: only a pending job is cancelled.
CancelRejected(status) == status # "pending"

MockEvent(op, code, job_id, detail) ==
    [op |-> op, code |-> code, job_id |-> job_id, detail |-> detail]

\* SmartContractPaymentService.initiate_payment: the record it stores.
ContractPayment(from_address, to_address, amount, tx_hash) ==
    [tx_hash |-> tx_hash, from_address |-> from_address,
     to_address |-> to_address, amount |-> amount,
     status |-> "locked_to_contract", created_at |-> mock_now,
     contract_tx_hash |-> tx_hash, execution_tx_hash |-> NoneHash]

\* send_payment: the job it stores on the smart-contract path.
ContractJob(from_address, to_address, amount, tx_hash) ==
    [tx_hash |-> tx_hash, status |-> "locked_to_contract", confirmations |-> 0,
     created_at |-> mock_now, confirmed_at |-> None,
     from_address |-> from_address, to_address |-> to_address,
     amount |-> amount, block_height |-> None, fee |-> 200000,
     smart_contract |-> TRUE, execution_tx_hash |-> NoneHash,
     error |-> NoneStr]

\* Mutant of MockJob: the hash is left for the confirmation to fill in.
MockJob_WithoutHash(from_address, to_address, amount) ==
    [tx_hash |-> NoneHash, status |-> "pending", confirmations |-> 0,
     created_at |-> mock_now, confirmed_at |-> None,
     from_address |-> from_address, to_address |-> to_address,
     amount |-> amount, block_height |-> None, fee |-> None,
     smart_contract |-> FALSE, execution_tx_hash |-> NoneHash,
     error |-> NoneStr]

\* send_payment: the job it stores on the mock path.
MockJob(from_address, to_address, amount) ==
    [tx_hash |-> MOCK_TX_HASH, status |-> "pending", confirmations |-> 0,
     created_at |-> mock_now, confirmed_at |-> None,
     from_address |-> from_address, to_address |-> to_address,
     amount |-> amount, block_height |-> None, fee |-> None,
     smart_contract |-> FALSE, execution_tx_hash |-> NoneHash,
     error |-> NoneStr]

\* The mock path of send_payment: a fresh job id, a pending job, and the
\* confirmation task scheduled.  `detail` says how the request got here.
MockPathOfSendPayment(from_address, to_address, amount, detail) ==
    LET job_id == generate_mock_job_id(mock_seq + 1) IN
    /\ mock_jobs' = Put(mock_jobs, job_id, MockJob(from_address, to_address, amount))
    /\ mock_tasks' = mock_tasks \cup
                       {[kind |-> "confirm", job_id |-> job_id, n |-> mock_seq + 1]}
    /\ mock_event' = MockEvent("send_payment", 200, job_id, detail)
    /\ UNCHANGED <<payments, contract_utxos>>

\* No output: the execution spent none.
NoUtxo == [tx_hash |-> NoneHash, payment_id |-> NoJob, amount |-> 0]

\* lock_funds_to_contract: the output the lock transaction pays to the
\* script address, with the payment's datum.
ContractUtxo(tx_hash, payment_id, amount) ==
    [tx_hash |-> tx_hash, payment_id |-> payment_id, amount |-> amount]

\* The smart-contract path of send_payment when initiate_payment succeeded.
ContractPathOfSendPayment(from_address, to_address, amount) ==
    LET job_id == PaymentId(mock_now, amount)
        tx_hash == <<"lock", mock_seq + 1>>
    IN
    /\ contract_utxos' = contract_utxos \cup {ContractUtxo(tx_hash, job_id, amount)}
    /\ payments' = Put(payments, job_id,
                       ContractPayment(from_address, to_address, amount, tx_hash))
    /\ mock_jobs' = Put(mock_jobs, job_id,
                        ContractJob(from_address, to_address, amount, tx_hash))
    /\ mock_tasks' = mock_tasks \cup
                       {[kind |-> "execute", job_id |-> job_id, n |-> mock_seq + 1]}
    /\ mock_event' = MockEvent("send_payment", 200, job_id, "locked")

\* POST /send_payment.  lock_ok: whether lock_funds_to_contract returns a
\* transaction hash (otherwise it raises, and initiate_payment answers
\* success = False).
MockSendPayment(from_address, to_address, amount, lock_ok) ==
    /\ mock_seq < MaxMockPayments
    /\ IF ~AmountAccepted(amount)
       THEN /\ mock_event' = MockEvent("send_payment", 422, NoJob, "validation")
            /\ UNCHANGED <<mock_jobs, payments, contract_utxos, mock_tasks, mock_seq>>
       ELSE IF ~StartsWithAddrPrefix(from_address) \/ ~StartsWithAddrPrefix(to_address)
       THEN /\ mock_event' = MockEvent("send_payment", 400, NoJob, "address")
            /\ UNCHANGED <<mock_jobs, payments, contract_utxos, mock_tasks, mock_seq>>
       ELSE /\ mock_seq' = mock_seq + 1
            /\ IF USE_SMART_CONTRACTS /\ lock_ok
               THEN ContractPathOfSendPayment(from_address, to_address, amount)
               ELSE \* smart contracts disabled, or the HTTPException(400) raised
                    \* for the failed initiation was caught by `except Exception`
                    MockPathOfSendPayment(from_address, to_address, amount,
                        IF USE_SMART_CONTRACTS THEN "initiation_failed" ELSE "mock")
    /\ UNCHANGED <<USE_SMART_CONTRACTS, mock_now, varsReal, varsUni, varsPay, varsAgent, varsBuyer, varsSeller, varsRouter>>

\* Mutant of MockSimulateConfirmation: the task confirms every job of the
\* store.
MockSimulateConfirmation_ConfirmsAll(task) ==
    /\ task \in mock_tasks
    /\ task.kind = "confirm"
    /\ mock_tasks' = mock_tasks \ {task}
    /\ mock_jobs' = [k \in DOMAIN mock_jobs |->
                        [mock_jobs[k] EXCEPT !.status = "confirmed"]]
    /\ mock_event' = MockEvent("confirm_task", 0, task.job_id, "ran")
    /\ UNCHANGED <<USE_SMART_CONTRACTS, contract_utxos, payments, mock_now, mock_seq,
                   varsReal, varsUni, varsPay, varsAgent, varsBuyer, varsSeller, varsRouter>>

\* simulate_confirmation_process, after its sleep.
MockSimulateConfirmation(task) ==
    /\ task \in mock_tasks
    /\ task.kind = "confirm"
    /\ mock_tasks' = mock_tasks \ {task}
    /\ IF task.job_id \in DOMAIN mock_jobs
       THEN mock_jobs' = Update(mock_jobs, task.job_id,
                [status |-> "confirmed", confirmed_at |-> mock_now,
                 confirmations |-> 5,
                 block_height |-> 8500000 + (mock_now % 1000),
                 fee |-> 170000])
       ELSE UNCHANGED mock_jobs
    /\ mock_event' = MockEvent("confirm_task", 0, task.job_id, "ran")
    /\ UNCHANGED <<USE_SMART_CONTRACTS, contract_utxos, payments, mock_now, mock_seq,
                   varsReal, varsUni, varsPay, varsAgent, varsBuyer, varsSeller, varsRouter>>

\* Mutant of ExecuteSucceeds: the status of the payment is not looked at.
ExecuteSucceeds_IgnoresStatus(payment_id, exec_ok) ==
    /\ payment_id \in DOMAIN payments
    /\ contract_utxos # {}
    /\ exec_ok

\* SmartContractPaymentService.execute_payment succeeds only for a known
\* payment that is locked and whose contract transaction goes through.
ExecuteSucceeds(payment_id, exec_ok) ==
    /\ payment_id \in DOMAIN payments
    /\ payments[payment_id].status = "locked_to_contract"
    /\ contract_utxos # {}
    /\ exec_ok

\* execute_payment_from_contract: the output it spends is the first one the
\* chain context lists at the script address, whatever its datum, and the
\* whole of it is paid to the recipient.  utxo: that output.
UtxosAfterExecution(utxo) == contract_utxos \ {utxo}

\* simulate_smart_contract_execution, after its sleep.  exec_ok: whether
\* execute_payment_from_contract returns a hash (otherwise it raises).
MockSimulateExecution(task, exec_ok, utxo) ==
    /\ task \in mock_tasks
    /\ task.kind = "execute"
    /\ mock_tasks' = mock_tasks \ {task}
    /\ IF task.job_id \in DOMAIN mock_jobs /\ USE_SMART_CONTRACTS
       THEN IF ExecuteSucceeds(task.job_id, exec_ok)
            THEN LET tx_hash == <<"exec", task.n>> IN
                 /\ utxo \in contract_utxos
                 /\ contract_utxos' = UtxosAfterExecution(utxo)
                 /\ payments' = Update(payments, task.job_id,
                        [execution_tx_hash |-> tx_hash, status |-> "confirmed"])
                 /\ mock_jobs' = Update(mock_jobs, task.job_id,
                        [status |-> "confirmed", confirmations |-> 5,
                         confirmed_at |-> mock_now,
                         execution_tx_hash |-> tx_hash,
                         block_height |-> 12345678, tx_hash |-> tx_hash])
                 /\ mock_event' = MockEvent("execute_task", 0, task.job_id, "executed")
            ELSE /\ mock_jobs' = Update(mock_jobs, task.job_id,
                        [status |-> "failed", error |-> "execution failed"])
                 /\ mock_event' = MockEvent("execute_task", 0, task.job_id, "failed")
                 /\ utxo = NoUtxo
                 /\ UNCHANGED <<payments, contract_utxos>>
       ELSE /\ mock_event' = MockEvent("execute_task", 0, task.job_id, "skipped")
            /\ utxo = NoUtxo
            /\ UNCHANGED <<mock_jobs, payments, contract_utxos>>
    /\ UNCHANGED <<USE_SMART_CONTRACTS, mock_now, mock_seq, varsReal, varsUni, varsPay, varsAgent, varsBuyer, varsSeller, varsRouter>>

\* DELETE /jobs/{job_id}.
MockCancelJob(job_id) ==
    /\ IF job_id \notin DOMAIN mock_jobs
       THEN /\ mock_event' = MockEvent("cancel_job", 404, job_id, "not found")
            /\ UNCHANGED mock_jobs
       ELSE IF CancelRejected(mock_jobs[job_id].status)
       THEN /\ mock_event' = MockEvent("cancel_job", 400, job_id,
                                       mock_jobs[job_id].status)
            /\ UNCHANGED mock_jobs
       ELSE /\ mock_jobs' = [mock_jobs EXCEPT ![job_id].status = "cancelled"]
            /\ mock_event' = MockEvent("cancel_job", 200, job_id, "cancelled")
    /\ UNCHANGED <<USE_SMART_CONTRACTS, contract_utxos, payments, mock_tasks, mock_now, mock_seq,
                   varsReal, varsUni, varsPay, varsAgent, varsBuyer, varsSeller, varsRouter>>

\* Mutant of MockGetTransactionStatus: an unknown job is answered as pending.
MockGetTransactionStatus_AnswersUnknown(job_id) ==
    /\ mock_event' = IF job_id \in DOMAIN mock_jobs
                     THEN MockEvent("tx_status", 200, job_id, mock_jobs[job_id].status)
                     ELSE MockEvent("tx_status", 200, job_id, "pending")
    /\ UNCHANGED <<USE_SMART_CONTRACTS, contract_utxos, mock_jobs, payments, mock_tasks,
                   mock_now, mock_seq, varsReal, varsUni, varsPay, varsAgent,
                   varsBuyer, varsSeller, varsRouter>>

\* GET /tx_status/{job_id} of the mock service.
MockGetTransactionStatus(job_id) ==
    /\ mock_event' = IF job_id \in DOMAIN mock_jobs
                     THEN MockEvent("tx_status", 200, job_id, mock_jobs[job_id].status)
                     ELSE MockEvent("tx_status", 404, job_id, "not found")
    /\ UNCHANGED <<USE_SMART_CONTRACTS, contract_utxos, mock_jobs, payments, mock_tasks,
                   mock_now, mock_seq, varsReal, varsUni, varsPay, varsAgent, varsBuyer, varsSeller, varsRouter>>

\* Mutant of PollMessage: every status but pending is shown as confirmed.
PollMessage_PendingOnlyWhenPending(status) ==
    IF status = "pending" THEN "TX_PENDING" ELSE "TX_CONFIRMED"

\* The message for the Arduino display that goes with a status.
PollMessage(status) ==
    IF status = "confirmed" THEN "TX_CONFIRMED" ELSE "TX_PENDING"

\* `a or b` on two hashes.
HashOr(a, b) == IF a # NoneHash THEN a ELSE b

\* SmartContractPaymentService.get_payment_status for a payment.
PaymentStatusReply(payment) ==
    [status |-> IF payment.status = "confirmed" THEN "confirmed" ELSE "pending",
     tx_hash |-> HashOr(payment.execution_tx_hash,
                        HashOr(payment.contract_tx_hash, payment.tx_hash)),
     message |-> PollMessage(payment.status),
     smart_contract |-> TRUE]

\* poll_tx_status on the mock path, for the latest job.
LatestJobReply(job) ==
    [status |-> job.status, tx_hash |-> job.tx_hash,
     message |-> PollMessage(job.status), smart_contract |-> job.smart_contract]

\* poll_tx_status on the mock path with an empty store: the hash of the
\* production wallet's transaction.
EmptyStoreReply ==
    [status |-> "confirmed", tx_hash |-> MOCK_TX_HASH,
     message |-> "TX_CONFIRMED", smart_contract |-> FALSE]

\* max(self.payments.keys()): the ids are compared as strings, which puts a
\* later timestamp last; among ids of one second any may be the greatest.
LatestPayments ==
    {k \in DOMAIN payments : \A j \in DOMAIN payments : j[2] <= k[2]}

\* max(mock_jobs.keys(), key=created_at): a job created last.
LatestJobs ==
    {k \in DOMAIN mock_jobs :
        \A j \in DOMAIN mock_jobs : mock_jobs[j].created_at <= mock_jobs[k].created_at}

\* The reply of GET /poll/tx_status, recorded as the event of the step.
PollEvent(reply) ==
    [op |-> "poll_tx_status", code |-> 200, job_id |-> NoJob,
     detail |-> reply.message, status |-> reply.status,
     tx_hash |-> reply.tx_hash, smart_contract |-> reply.smart_contract]

\* GET /poll/tx_status: the contract service's latest payment when smart
\* contracts are on and it has one, otherwise the latest job of the store.
MockPollTxStatus ==
    /\ IF USE_SMART_CONTRACTS /\ payments # EmptyMap
       THEN \E k \in LatestPayments :
               mock_event' = PollEvent(PaymentStatusReply(payments[k]))
       ELSE IF mock_jobs = EmptyMap
       THEN mock_event' = PollEvent(EmptyStoreReply)
       ELSE \E k \in LatestJobs :
               mock_event' = PollEvent(LatestJobReply(mock_jobs[k]))
    /\ UNCHANGED <<USE_SMART_CONTRACTS, contract_utxos, mock_jobs, payments, mock_tasks,
                   mock_now, mock_seq, varsReal, varsUni, varsPay, varsAgent,
                   varsBuyer, varsSeller, varsRouter>>

\* One second passes on the mock service's clock.
MockTick ==
    /\ mock_now < MaxMockTime
    /\ mock_now' = mock_now + 1
    /\ mock_event' = MockEvent("tick", 0, NoJob, "tick")
    /\ UNCHANGED <<USE_SMART_CONTRACTS, contract_utxos, mock_jobs, payments, mock_tasks, mock_seq,
                   varsReal, varsUni, varsPay, varsAgent, varsBuyer, varsSeller, varsRouter>>

\* The job ids a request can name: the ids in the store, and one the service
\* never issues.
MockJobIds == (DOMAIN mock_jobs) \cup {<<"job", 0, 0>>}

InitMock ==
    /\ USE_SMART_CONTRACTS \in MockConfigurations
    /\ mock_jobs = EmptyMap
    /\ payments = EmptyMap
    /\ contract_utxos = {}
    /\ mock_tasks = {}
    /\ mock_now = 0
    /\ mock_seq = 0
    /\ mock_event = MockEvent("start", 0, NoJob, "start")

NextMock ==
    \/ \E from_address \in Addresses, to_address \in Addresses,
          amount \in Amounts, lock_ok \in BOOLEAN :
          MockSendPayment(from_address, to_address, amount, lock_ok)
    \/ \E task \in mock_tasks : MockSimulateConfirmation(task)
    \/ \E task \in mock_tasks, exec_ok \in BOOLEAN, utxo \in contract_utxos \cup {NoUtxo} :
          MockSimulateExecution(task, exec_ok, utxo)
    \/ \E job_id \in MockJobIds : MockCancelJob(job_id)
    \/ \E job_id \in MockJobIds : MockGetTransactionStatus(job_id)
    \/ MockPollTxStatus
    \/ MockTick

---------------------------------------------------------------------------
(* The real payment service: send_payment and the confirmation monitor. *)

\* max_wait_time of process_transaction_confirmation, in seconds.
max_wait_time == 300
\* The monitor's asyncio.sleep between two polls, in seconds.
POLL_SLEEP == 10
\* The fee send_payment adds to the amount when it checks the balance.
ESTIMATED_FEE == 200000
\* Seconds in a day: timedelta.seconds is the seconds part of the difference.
SECONDS_PER_DAY == 86400

\* Seconds a gateway call of one poll can take (requests time out after 30 s).
PollLatencies == {0, 10}
\* Sender balances Blockfrost can report.
Balances == {0, 5000000}
\* What masumi_client.create_transaction can do.
CreateOutcomes == {"tx_id", "no_tx_id", "raises"}
\* What masumi_client.submit_transaction can do: return a reply with or
\* without a cardano_tx_hash, or raise.
SubmitOutcomes == {"hash", "no_hash", "raises"}
\* What masumi_client.get_transaction_status can do in one poll: raise, or
\* answer a status, with the hash of the submission, with another hash, or
\* with none.
PollReplies ==
    {[status |-> "raises", hash |-> "none"],
     [status |-> "pending", hash |-> "none"],
     [status |-> "confirmed", hash |-> "submitted"],
     [status |-> "confirmed", hash |-> "other"],
     [status |-> "confirmed", hash |-> "none"],
     [status |-> "failed", hash |-> "none"]}
\* What the Blockfrost verification of a confirmed transaction can do:
\* get_transaction raises, or the transaction is found with so many
\* confirmations (get_transaction_confirmations answers 0 on any error).
VerifyOutcomes == {[found |-> FALSE, confirmations |-> 0],
                   [found |-> TRUE, confirmations |-> 0],
                   [found |-> TRUE, confirmations |-> 4]}
\* One poll: the gateway's reply, and Blockfrost's answer when the reply
\* makes the monitor ask Blockfrost.
Polls ==
    {p \in [reply : PollReplies, verify : VerifyOutcomes] :
        (p.reply.status = "confirmed" /\ p.reply.hash # "none")
        \/ p.verify = [found |-> FALSE, confirmations |-> 0]}
\* Amounts of the requests to the real service.
RealAmounts == {0, 1000000}
\* Live confirmation counts a status query can read.
LiveConfirmations == {0, 4}

\* generate_job_id: "real_job_" + 16 hex digits of a fresh uuid4.
generate_job_id(n) == <<"real_job", n, 0>>

\* BlockfrostClient.validate_address: the address is known to Blockfrost.
validate_address(address) == address \in {"addr_test1qq9f4n4zk8gx"}

\* timedelta.seconds of a non-negative difference.
Seconds(elapsed) == elapsed % SECONDS_PER_DAY

\* Mutant of StillWaiting: the bound compared with <= instead of <.
StillWaiting_Inclusive(elapsed) == Seconds(elapsed) <= max_wait_time

\* The monitor's loop condition.
StillWaiting(elapsed) == Seconds(elapsed) < max_wait_time

\* send_payment's balance check raises HTTPException(400) ...
InsufficientBalance(balance, amount) == balance < amount + ESTIMATED_FEE
\* ... inside a try whose `except Exception` logs it and goes on.
BalanceErrorSwallowed == TRUE

\* The last handler or task of the real service: detail says what it did or
\* what the gateway did, note what the balance check found.
RealEvent(op, code, job_id, detail, note) ==
    [op |-> op, code |-> code, job_id |-> job_id, detail |-> detail, note |-> note]

\* The job send_payment stores before it submits.
RealJob(n, from_address, to_address, amount) ==
    [masumi_tx_id |-> <<"masumi_tx", n>>, tx_hash |-> NoneHash,
     status |-> "pending", confirmations |-> 0,
     submitted_at |-> NoneStr, confirmed_at |-> NoneStr,
     from_address |-> from_address, to_address |-> to_address,
     amount |-> amount, block_height |-> None, fee |-> 170000,
     error_message |-> NoneStr]

\* The monitor of a job: where it is, the seconds since its start_time at
\* its next loop check (0 once it has returned: its locals are gone), and
\* whether a reply of the gateway has said "confirmed".
NewMonitor ==
    [pc |-> "scheduled", elapsed |-> 0, told_confirmed |-> FALSE]

\* The job after send_payment's call of submit_transaction: submitted with
\* the reply's cardano_tx_hash, or failed when the call raised.
JobAfterSubmit(job, n, submit) ==
    IF submit = "raises"
    THEN [job EXCEPT !.status = "failed", !.error_message = "Submission failed"]
    ELSE [job EXCEPT !.status = "submitted",
                     !.tx_hash = IF submit = "hash" THEN <<"tx", n>> ELSE NoneHash,
                     !.submitted_at = "set"]

\* Mutant of MonitorScheduled: the monitor is added before the submission
\* is attempted, so also when it raises.
MonitorScheduled_BeforeSubmit(submit) == TRUE

\* Whether send_payment adds the confirmation monitor to its background
\* tasks: only in the branch where the submission did not raise.
MonitorScheduled(submit) == submit # "raises"

\* The status code send_payment answers once the job is stored.
StatusAfterSubmit(submit) == IF submit = "raises" THEN 500 ELSE 200

\* POST /send_payment of the real service.  balance: what Blockfrost reports
\* for the sender; create, submit: what the two gateway calls do.
RealSendPayment(from_address, to_address, amount, balance, create, submit) ==
    /\ real_seq < MaxRealJobs
    /\ LET n == real_seq + 1
           job_id == generate_job_id(n)
           job == RealJob(n, from_address, to_address, amount)
           note == IF InsufficientBalance(balance, amount)
                   THEN "insufficient balance" ELSE "balance ok"
       IN
       IF ~AmountAccepted(amount)
       THEN /\ real_event' = RealEvent("send_payment", 422, NoJob, "validation", "")
            /\ UNCHANGED <<active_jobs, monitors, real_seq>>
       ELSE IF ~validate_address(from_address) \/ ~validate_address(to_address)
       THEN /\ real_event' = RealEvent("send_payment", 400, NoJob, "address", "")
            /\ UNCHANGED <<active_jobs, monitors, real_seq>>
       ELSE IF InsufficientBalance(balance, amount) /\ ~BalanceErrorSwallowed
       THEN /\ real_event' = RealEvent("send_payment", 400, NoJob, "balance", note)
            /\ UNCHANGED <<active_jobs, monitors, real_seq>>
       ELSE IF create # "tx_id"
       THEN /\ real_event' = RealEvent("send_payment", 500, NoJob, "create failed", note)
            /\ UNCHANGED <<active_jobs, monitors, real_seq>>
       ELSE /\ active_jobs' = Put(active_jobs, job_id, JobAfterSubmit(job, n, submit))
            /\ monitors' = IF MonitorScheduled(submit)
                           THEN Put(monitors, job_id, NewMonitor)
                           ELSE monitors
            /\ real_event' = RealEvent("send_payment", StatusAfterSubmit(submit),
                                       job_id, submit, note)
            /\ real_seq' = n
    /\ UNCHANGED <<varsMock, varsUni, varsPay, varsAgent, varsBuyer, varsSeller, varsRouter>>

\* The cardano_tx_hash of a poll's reply.
ReplyHash(job, reply) ==
    CASE reply.hash = "submitted" -> job.tx_hash
      [] reply.hash = "other" -> <<"tx_cardano", job.masumi_tx_id[2]>>
      [] OTHER -> NoneHash

\* Mutant of JobAfterPoll: a confirmed reply confirms the job whether or not
\* it carries a cardano_tx_hash.
JobAfterPoll_ConfirmsWithoutHash(job, reply, verify) ==
    CASE reply.status = "confirmed" ->
            [job EXCEPT !.status = "confirmed", !.tx_hash = ReplyHash(job, reply),
                        !.confirmed_at = "set", !.confirmations = 1]
      [] reply.status = "failed" ->
            [job EXCEPT !.status = "failed", !.error_message = "Transaction failed"]
      [] OTHER -> job

\* Mutant of JobAfterPoll: a poll that raises fails the job, as the task's
\* outer handler would.
JobAfterPoll_FailsOnError(job, reply, verify) ==
    CASE reply.status = "raises" ->
            [job EXCEPT !.status = "failed", !.error_message = "poll raised"]
      [] reply.status = "failed" ->
            [job EXCEPT !.status = "failed", !.error_message = "Transaction failed"]
      [] OTHER -> job

\* Mutant of JobAfterPoll: the gateway's status is copied into the job
\* whenever the poll returns one.
JobAfterPoll_MirrorsGateway(job, reply, verify) ==
    IF reply.status = "raises" THEN job ELSE [job EXCEPT !.status = reply.status]

\* What one poll makes of the job: the record after the poll.
JobAfterPoll(job, reply, verify) ==
    LET cardano_tx_hash == ReplyHash(job, reply) IN
    CASE reply.status = "confirmed" /\ cardano_tx_hash # NoneHash /\ verify.found ->
            [job EXCEPT !.status = "confirmed", !.tx_hash = cardano_tx_hash,
                        !.confirmed_at = "set",
                        !.confirmations = verify.confirmations,
                        !.block_height = 8500123, !.fee = 170000]
      [] reply.status = "confirmed" /\ cardano_tx_hash # NoneHash /\ ~verify.found ->
            [job EXCEPT !.status = "confirmed", !.tx_hash = cardano_tx_hash,
                        !.confirmed_at = "set", !.confirmations = 1]
      [] reply.status = "failed" ->
            [job EXCEPT !.status = "failed",
                        !.error_message = "Transaction failed"]
      [] OTHER -> job

\* Whether the monitor returns after this poll (otherwise it sleeps).
ReturnsAfterPoll(job, reply) ==
    \/ reply.status = "confirmed" /\ ReplyHash(job, reply) # NoneHash
    \/ reply.status = "failed"

\* The job after the monitor's loop has ended without a return.
JobAfterTimeout(job) ==
    [job EXCEPT !.status = "failed",
                !.error_message = "Transaction confirmation timeout"]

\* process_transaction_confirmation, from its start or from the end of a
\* sleep to its next sleep or its return.  reply, verify: what the gateway
\* and Blockfrost answer; latency: the seconds the calls take.
RealMonitorRun(job_id, reply, verify, latency) ==
    /\ job_id \in DOMAIN monitors
    /\ monitors[job_id].pc # "done"
    /\ LET m == monitors[job_id]
           job == active_jobs[job_id]
       IN
       IF StillWaiting(m.elapsed)
       THEN /\ active_jobs' = [active_jobs EXCEPT ![job_id] =
                                   JobAfterPoll(job, reply, verify)]
            /\ monitors' = [monitors EXCEPT ![job_id] =
                 [pc |-> IF ReturnsAfterPoll(job, reply) THEN "done" ELSE "sleeping",
                  elapsed |-> IF ReturnsAfterPoll(job, reply)
                              THEN 0
                              ELSE m.elapsed + latency + POLL_SLEEP,
                  told_confirmed |-> m.told_confirmed \/ reply.status = "confirmed"]]
            /\ real_event' = RealEvent("monitor", 0, job_id,
                    IF reply.status = "raises" THEN "poll raised" ELSE "polled", "")
       ELSE /\ active_jobs' = [active_jobs EXCEPT ![job_id] = JobAfterTimeout(job)]
            /\ monitors' = [monitors EXCEPT ![job_id].pc = "done",
                                            ![job_id].elapsed = 0]
            /\ real_event' = RealEvent("monitor", 0, job_id, "timeout", "")
    /\ UNCHANGED <<real_seq, varsMock, varsUni, varsPay, varsAgent, varsBuyer, varsSeller, varsRouter>>

\* Mutant of JobAfterStatusQuery: the live count is stored as read.
JobAfterStatusQuery_StoresLive(job, live) ==
    IF job.status = "confirmed" /\ job.tx_hash # NoneHash
    THEN [job EXCEPT !.confirmations = live]
    ELSE job

\* Mutant of JobAfterStatusQuery: the count is refreshed in every status.
JobAfterStatusQuery_AnyStatus(job, live) ==
    [job EXCEPT !.confirmations = IF live > @ THEN live ELSE @]

\* What get_transaction_status writes into the job it answers with: for a
\* confirmed job with a tx_hash, max(stored confirmations, live count).
JobAfterStatusQuery(job, live) ==
    IF job.status = "confirmed" /\ job.tx_hash # NoneHash
    THEN [job EXCEPT !.confirmations = IF live > @ THEN live ELSE @]
    ELSE job

\* GET /tx_status/{job_id} of the real service.  live: the confirmation
\* count Blockfrost reports now.
RealGetTransactionStatus(job_id, live) ==
    /\ IF job_id \notin DOMAIN active_jobs
       THEN /\ real_event' = RealEvent("tx_status", 404, job_id, "not found", "")
            /\ UNCHANGED active_jobs
       ELSE LET job == active_jobs[job_id] IN
            /\ active_jobs' = [active_jobs EXCEPT ![job_id] =
                                   JobAfterStatusQuery(job, live)]
            /\ real_event' = RealEvent("tx_status", 200, job_id, job.status, "")
    /\ UNCHANGED <<monitors, real_seq, varsMock, varsUni, varsPay, varsAgent, varsBuyer, varsSeller, varsRouter>>

RealJobIds == (DOMAIN active_jobs) \cup {<<"real_job", 0, 0>>}

InitReal ==
    /\ active_jobs = EmptyMap
    /\ monitors = EmptyMap
    /\ real_seq = 0
    /\ real_event = RealEvent("start", 0, NoJob, "start", "")

NextReal ==
    \/ \E from_address \in Addresses, to_address \in Addresses, amount \in RealAmounts,
          balance \in Balances, create \in CreateOutcomes, submit \in SubmitOutcomes :
          RealSendPayment(from_address, to_address, amount, balance, create, submit)
    \/ \E job_id \in DOMAIN monitors, poll \in Polls, latency \in PollLatencies :
          RealMonitorRun(job_id, poll.reply, poll.verify, latency)
    \/ \E job_id \in RealJobIds, live \in LiveConfirmations :
          RealGetTransactionStatus(job_id, live)

---------------------------------------------------------------------------
(* The unified payment service: process_payment and simulate_confirmation. *)

UniEvent(op, code, job_id, detail) ==
    [op |-> op, code |-> code, job_id |-> job_id, detail |-> detail]

\* process_payment's job id: "unified_job_" + 16 hex digits of a fresh uuid4.
unified_job_id(n) == <<"unified_job", n, 0>>

\* SimpleBlockfrostClient.validate_address.
SimpleValidateAddress(address) == StartsWithAddrPrefix(address)

\* process_payment raises HTTPException(400) for an invalid address inside
\* its try; `except Exception` catches it and raises HTTPException(500).
StatusOfRejectedAddress == 500

\* The job process_payment stores.
UnifiedJob(n, from_address, to_address, amount) ==
    [masumi_tx_id |-> IF blockfrost_available
                      THEN <<"masumi", n>> ELSE <<"mock", n>>,
     tx_hash |-> MOCK_TX_HASH,
     status |-> IF blockfrost_available THEN "submitted" ELSE "pending",
     confirmations |-> 0, confirmed_at |-> NoneStr,
     from_address |-> from_address, to_address |-> to_address,
     amount |-> amount, real_blockchain |-> blockfrost_available]

\* POST /send_payment of the unified service (process_payment).
UnifiedProcessPayment(from_address, to_address, amount) ==
    /\ uni_seq < MaxUniJobs
    /\ IF ~AmountAccepted(amount)
       THEN /\ uni_event' = UniEvent("send_payment", 422, NoJob, "validation")
            /\ UNCHANGED <<payment_jobs, uni_tasks, uni_seq>>
       ELSE IF ~SimpleValidateAddress(from_address)
               \/ ~SimpleValidateAddress(to_address)
       THEN /\ uni_event' = UniEvent("send_payment", StatusOfRejectedAddress,
                                     NoJob, "address")
            /\ UNCHANGED <<payment_jobs, uni_tasks, uni_seq>>
       ELSE LET job_id == unified_job_id(uni_seq + 1) IN
            /\ payment_jobs' = Put(payment_jobs, job_id,
                   UnifiedJob(uni_seq + 1, from_address, to_address, amount))
            /\ uni_tasks' = uni_tasks \cup {job_id}
            /\ uni_seq' = uni_seq + 1
            /\ uni_event' = UniEvent("send_payment", 200, job_id,
                                     payment_jobs'[job_id].status)
    /\ UNCHANGED <<blockfrost_available, varsMock, varsReal, varsPay, varsAgent, varsBuyer, varsSeller, varsRouter>>

\* simulate_confirmation, after its sleep.
UnifiedSimulateConfirmation(job_id) ==
    /\ job_id \in uni_tasks
    /\ uni_tasks' = uni_tasks \ {job_id}
    /\ payment_jobs' = IF job_id \in DOMAIN payment_jobs
                       THEN Update(payment_jobs, job_id,
                                [status |-> "confirmed", confirmations |-> 5,
                                 confirmed_at |-> "set"])
                       ELSE payment_jobs
    /\ uni_event' = UniEvent("confirm_task", 0, job_id, "ran")
    /\ UNCHANGED <<blockfrost_available, uni_seq, varsMock, varsReal, varsPay, varsAgent, varsBuyer, varsSeller, varsRouter>>

\* GET /tx_status/{job_id} of the unified service (get_payment_status).
UnifiedGetPaymentStatus(job_id) ==
    /\ uni_event' = IF job_id \in DOMAIN payment_jobs
                    THEN UniEvent("tx_status", 200, job_id,
                                  payment_jobs[job_id].status)
                    ELSE UniEvent("tx_status", 404, job_id, "not found")
    /\ UNCHANGED <<blockfrost_available, payment_jobs, uni_tasks, uni_seq,
                   varsMock, varsReal, varsPay, varsAgent, varsBuyer, varsSeller, varsRouter>>

UniJobIds == (DOMAIN payment_jobs) \cup {<<"unified_job", 0, 0>>}

InitUni ==
    /\ blockfrost_available \in UniConfigurations
    /\ payment_jobs = EmptyMap
    /\ uni_tasks = {}
    /\ uni_seq = 0
    /\ uni_event = UniEvent("start", 0, NoJob, "start")

NextUni ==
    \/ \E from_address \in Addresses, to_address \in Addresses, amount \in Amounts :
          UnifiedProcessPayment(from_address, to_address, amount)
    \/ \E job_id \in uni_tasks : UnifiedSimulateConfirmation(job_id)
    \/ \E job_id \in UniJobIds : UnifiedGetPaymentStatus(job_id)

---------------------------------------------------------------------------
(* The payment service of src/blockchain: create_payment_job and            *)
(* process_payment.  Timestamps (created_at, updated_at) are left out of    *)
(* the job record: no branch reads them.                                    *)

\* The least amount create_payment_job accepts: 1 ADA in lovelace.
MIN_AMOUNT == 1000000
\* The amount of the request POST /test_payment builds: 2 ADA.
TEST_PAYMENT_AMOUNT == 2000000

\* Amounts of the requests to the payment service (PaymentRequest.amount is
\* an int without a constraint).
PayAmounts == {-1000, 0, 500000, 1000000, 2000000}
\* The modes the payment service is started in: MOCK_MODE or no project id,
\* or a real Blockfrost project.
PayConfigurations == BOOLEAN
\* What _submit_real_transaction can do: return a hash, find the balance
\* too low, or fail in get_address_info.
RealSubmitOutcomes == {"hash", "insufficient", "raises"}

\* str(uuid.uuid4()).
payment_job_id(n) == <<"payment_job", n, 0>>

\* PaymentService._validate_address on the default network (preprod):
\* a non-empty address starting with "addr_test1".
_validate_address(address) == address \in {"addr_test1qq9f4n4zk8gx"}

\* Mutant of AmountBelowMinimum: the check left out.
AmountBelowMinimum_Unchecked(amount) == FALSE

\* create_payment_job's amount check.
AmountBelowMinimum(amount) == amount < MIN_AMOUNT

\* Why create_payment_job raises ValueError for a request, or "none".
CreateJobError(from_address, to_address, amount) ==
    CASE ~_validate_address(from_address) -> "Invalid from_address"
      [] ~_validate_address(to_address) -> "Invalid to_address"
      [] AmountBelowMinimum(amount) -> "Amount must be at least 1 ADA"
      [] OTHER -> "none"

PayEvent(op, code, job_id, detail) ==
    [op |-> op, code |-> code, job_id |-> job_id, detail |-> detail]

\* The job create_payment_job stores.
PayJob(from_address, to_address, amount) ==
    [status |-> "pending",
     payment_request |-> [from_address |-> from_address,
                          to_address |-> to_address, amount |-> amount],
     transaction_hash |-> NoneHash, error |-> NoneStr]

\* create_payment_job followed by what the caller does with the job id:
\* `scheduled` says whether the BackgroundTasks object the task was added to
\* is the one the framework runs after the response.
CreatePaymentJob(op, from_address, to_address, amount, scheduled) ==
    LET error == CreateJobError(from_address, to_address, amount)
        job_id == payment_job_id(pay_seq + 1)
    IN
    IF error # "none"
    THEN /\ pay_event' = PayEvent(op, 400, NoJob, error)
         /\ UNCHANGED <<pay_jobs, pay_tasks, pay_seq>>
    ELSE /\ pay_jobs' = Put(pay_jobs, job_id, PayJob(from_address, to_address, amount))
         /\ pay_tasks' = IF scheduled THEN Put(pay_tasks, job_id, "scheduled")
                         ELSE pay_tasks
         /\ pay_seq' = pay_seq + 1
         /\ pay_event' = PayEvent(op, 200, job_id, "pending")

\* POST /send_payment of the payment service: the task is added to the
\* BackgroundTasks FastAPI injected.
PaySendPayment(from_address, to_address, amount) ==
    /\ pay_seq < MaxPayJobs
    /\ CreatePaymentJob("send_payment", from_address, to_address, amount, TRUE)
    /\ UNCHANGED <<pay_mock_mode, varsMock, varsReal, varsUni, varsAgent, varsBuyer, varsSeller, varsRouter>>

\* POST /test_payment: it calls send_payment with a BackgroundTasks() of its
\* own, which nothing ever runs.
PayTestPayment ==
    /\ pay_seq < MaxPayJobs
    /\ CreatePaymentJob("test_payment", "addr_test1qq9f4n4zk8gx",
                        "addr_test1qq9f4n4zk8gx", TEST_PAYMENT_AMOUNT, FALSE)
    /\ UNCHANGED <<pay_mock_mode, varsMock, varsReal, varsUni, varsAgent, varsBuyer, varsSeller, varsRouter>>

\* The job after the real-mode branch of process_payment.
JobAfterRealSubmit(job, n, outcome) ==
    CASE outcome = "hash" ->
            [job EXCEPT !.status = "completed",
                        !.transaction_hash = <<"real_mock_tx", n>>]
      [] outcome = "insufficient" ->
            [job EXCEPT !.status = "failed", !.error = "Insufficient balance"]
      [] OTHER ->
            [job EXCEPT !.status = "failed", !.error = "address info failed"]

\* process_payment from its start: to its sleep in mock mode, to its end in
\* real mode.
PayProcessStart(job_id, outcome) ==
    /\ job_id \in DOMAIN pay_tasks
    /\ pay_tasks[job_id] = "scheduled"
    /\ IF pay_mock_mode
       THEN /\ pay_jobs' = [pay_jobs EXCEPT ![job_id].status = "processing"]
            /\ pay_tasks' = [pay_tasks EXCEPT ![job_id] = "sleeping"]
            /\ pay_event' = PayEvent("process_payment", 0, job_id, "processing")
       ELSE /\ pay_jobs' = [pay_jobs EXCEPT ![job_id] =
                                JobAfterRealSubmit(pay_jobs[job_id], job_id[2], outcome)]
            /\ pay_tasks' = [pay_tasks EXCEPT ![job_id] = "done"]
            /\ pay_event' = PayEvent("process_payment", 0, job_id, outcome)
    /\ UNCHANGED <<pay_mock_mode, pay_seq, varsMock, varsReal, varsUni, varsAgent, varsBuyer, varsSeller, varsRouter>>

\* process_payment in mock mode after its sleep.  success: random() < 0.9.
PayProcessFinish(job_id, success) ==
    /\ job_id \in DOMAIN pay_tasks
    /\ pay_tasks[job_id] = "sleeping"
    /\ pay_jobs' = [pay_jobs EXCEPT ![job_id] =
           IF success
           THEN [@ EXCEPT !.status = "completed",
                          !.transaction_hash = <<"mock_tx", job_id[2]>>]
           ELSE [@ EXCEPT !.status = "failed",
                          !.error = "Mock payment failure for testing"]]
    /\ pay_tasks' = [pay_tasks EXCEPT ![job_id] = "done"]
    /\ pay_event' = PayEvent("process_payment", 0, job_id,
                             IF success THEN "completed" ELSE "failed")
    /\ UNCHANGED <<pay_mock_mode, pay_seq, varsMock, varsReal, varsUni, varsAgent, varsBuyer, varsSeller, varsRouter>>

\* GET /job_status/{job_id}.
PayGetJobStatus(job_id) ==
    /\ pay_event' = IF job_id \in DOMAIN pay_jobs
                    THEN PayEvent("job_status", 200, job_id, pay_jobs[job_id].status)
                    ELSE PayEvent("job_status", 404, job_id, "Job not found")
    /\ UNCHANGED <<pay_mock_mode, pay_jobs, pay_tasks, pay_seq,
                   varsMock, varsReal, varsUni, varsAgent, varsBuyer, varsSeller, varsRouter>>

PayJobIds == (DOMAIN pay_jobs) \cup {payment_job_id(0)}

InitPay ==
    /\ pay_mock_mode \in PayConfigurations
    /\ pay_jobs = EmptyMap
    /\ pay_tasks = EmptyMap
    /\ pay_seq = 0
    /\ pay_event = PayEvent("start", 0, NoJob, "start")

\* The steps of the process_payment task of one job.
PayProcess(job_id) ==
    \/ \E outcome \in RealSubmitOutcomes : PayProcessStart(job_id, outcome)
    \/ \E success \in BOOLEAN : PayProcessFinish(job_id, success)

NextPay ==
    \/ \E from_address \in Addresses, to_address \in Addresses, amount \in PayAmounts :
          PaySendPayment(from_address, to_address, amount)
    \/ PayTestPayment
    \/ \E job_id \in DOMAIN pay_tasks : PayProcess(job_id)
    \/ \E job_id \in PayJobIds : PayGetJobStatus(job_id)

---------------------------------------------------------------------------
(* The seller agent: initiate_payment, check_transaction_status and the     *)
(* monitor_transaction thread.  One check_transaction_status call is one    *)
(* step.  The fallback hash mock_tx_<seconds> is modelled as a fresh one.   *)

\* max_attempts of monitor_transaction.
max_attempts == 30

\* What the payment service answers to initiate_payment's POST: an error
\* (or no answer), or 200 with a JSON body whose transaction_hash key is
\* null (the PaymentResponse of the payment service at creation), absent,
\* or a hash.
PaymentResponses == {"error", "null_hash", "no_hash_key", "hash"}
\* What GET /job_status/{job_id} does in one check: the request raises, the
\* answer is not 200, or it is 200 with a status.
JobStatusReplies == {"raises", "non200", "pending", "processing", "completed", "failed"}

\* How one call of handle_confirmed_transaction goes: both messages are
\* delivered, the serial write raises (caught in send_to_arduino, the router
\* is still told), or the router POST raises or is answered with an error.
NotifyOutcomes == {"delivered", "arduino_raises", "router_raises", "router_non200"}

\* notify: "none", or the outcome of the notification the step made.
AgentEvent(op, code, tx_hash, detail, notify) ==
    [op |-> op, code |-> code, tx_hash |-> tx_hash, detail |-> detail,
     notify |-> notify]

\* The number of notifications made for a hash.
NotificationCount(tx_hash) ==
    IF tx_hash \in DOMAIN notifications THEN notifications[tx_hash] ELSE 0

\* Mutant of StatusAfterNotification: a failed delivery puts the
\* transaction back to pending.
StatusAfterNotification_RevertsOnFailure(status, outcome) ==
    IF outcome = "delivered" THEN status ELSE "pending"

\* The recorded status after handle_confirmed_transaction: every failure is
\* caught and logged, the record is not written.
StatusAfterNotification(status, outcome) == status

\* result.get("transaction_hash", f"mock_tx_{int(time.time())}"): the default
\* is used only when the key is absent, a null value is kept.
TrackedHash(response, n) ==
    CASE response = "null_hash" -> NoneHash
      [] response = "no_hash_key" -> <<"mock_tx", n>>
      [] OTHER -> <<"tx", n>>

\* `if tx_hash:` in respond_to_offer, before the monitor thread is started.
MonitorStarted(tx_hash) == tx_hash # NoneHash

\* tx_hash.startswith("mock_tx_").
IsMockHash(tx_hash) == tx_hash[1] = "mock_tx"

\* POST /respond.  accept: make_decision's verdict (amount >= threshold).
AgentRespond(accept, response) ==
    /\ agent_seq < MaxAgentPayments
    /\ IF ~accept
       THEN /\ agent_event' = AgentEvent("respond", 200, NoneHash, "reject", "none")
            /\ UNCHANGED <<pending_transactions, monitor_threads, agent_seq>>
       ELSE IF response = "error"
       THEN /\ agent_event' = AgentEvent("respond", 200, NoneHash, "no payment", "none")
            /\ UNCHANGED <<pending_transactions, monitor_threads, agent_seq>>
       ELSE LET n == agent_seq + 1
                tx_hash == TrackedHash(response, n)
            IN
            /\ pending_transactions' = Put(pending_transactions, tx_hash,
                   [job_id |-> payment_job_id(n), status |-> "pending"])
            /\ monitor_threads' =
                   IF MonitorStarted(tx_hash)
                   THEN Put(monitor_threads, tx_hash, [pc |-> "running", attempt |-> 0])
                   ELSE monitor_threads
            /\ agent_seq' = n
            /\ agent_event' = AgentEvent("respond", 200, tx_hash, response, "none")
    /\ UNCHANGED <<notifications, varsMock, varsReal, varsUni, varsPay, varsBuyer, varsSeller, varsRouter>>

\* Mutant of NotifiesOn: the call of handle_confirmed_transaction left out.
NotifiesOn_Never(status) == FALSE

\* check_transaction_status calls handle_confirmed_transaction (Arduino
\* message and router post) for this status of the job.
NotifiesOn(status) == status = "completed"

\* The tracked status after check_transaction_status.  aged: more than 10 s
\* have passed since the transaction was stored.
StatusAfterCheck(tx_hash, status, reply, aged) ==
    CASE reply = "raises" -> status
      [] reply = "non200" -> IF IsMockHash(tx_hash) /\ aged THEN "completed" ELSE status
      [] OTHER -> reply

\* Whether check_transaction_status notifies in this call.
CheckNotifies(tx_hash, reply, aged) ==
    CASE reply = "raises" -> FALSE
      [] reply = "non200" -> IsMockHash(tx_hash) /\ aged
      [] OTHER -> NotifiesOn(reply)

\* The status in the dict check_transaction_status returns.
ReturnedStatus(tx_hash, status, reply, aged) ==
    IF reply = "raises" THEN "error" ELSE StatusAfterCheck(tx_hash, status, reply, aged)

\* The notification a check makes, for the event.
CheckNotification(tx_hash, reply, aged, outcome) ==
    IF CheckNotifies(tx_hash, reply, aged) THEN outcome ELSE "none"

\* The effect of check_transaction_status on a tracked transaction: the
\* status is stored, then handle_confirmed_transaction is called.
CheckTransactionStatus(tx_hash, reply, aged, outcome) ==
    IF CheckNotifies(tx_hash, reply, aged)
    THEN /\ NotificationCount(tx_hash) < MaxNotifications
         /\ pending_transactions' = [pending_transactions EXCEPT ![tx_hash].status =
                StatusAfterNotification(StatusAfterCheck(tx_hash, @, reply, aged),
                                        outcome)]
         /\ notifications' = Put(notifications, tx_hash, NotificationCount(tx_hash) + 1)
    ELSE /\ pending_transactions' = [pending_transactions EXCEPT ![tx_hash].status =
                StatusAfterCheck(tx_hash, @, reply, aged)]
         /\ UNCHANGED notifications

\* Mutant of NextAttempt: a turn of the loop does not count.
NextAttempt_NotCounted(attempt) == attempt

\* `attempt += 1` after the sleep that ends a turn of monitor_transaction.
NextAttempt(attempt) == attempt + 1

\* monitor_transaction: one turn of its loop, or its end after max_attempts.
AgentMonitorStep(tx_hash, reply, aged, outcome) ==
    /\ tx_hash \in DOMAIN monitor_threads
    /\ monitor_threads[tx_hash].pc = "running"
    /\ LET t == monitor_threads[tx_hash]
           returned == ReturnedStatus(tx_hash, pending_transactions[tx_hash].status,
                                      reply, aged)
       IN
       IF t.attempt < max_attempts
       THEN /\ CheckTransactionStatus(tx_hash, reply, aged, outcome)
            /\ monitor_threads' = [monitor_threads EXCEPT ![tx_hash] =
                   IF returned \in {"completed", "failed"}
                   THEN [pc |-> "done", attempt |-> t.attempt]
                   ELSE [pc |-> "running", attempt |-> NextAttempt(t.attempt)]]
            /\ agent_event' = AgentEvent("monitor", 0, tx_hash, returned,
                   CheckNotification(tx_hash, reply, aged, outcome))
       ELSE /\ monitor_threads' = [monitor_threads EXCEPT ![tx_hash].pc = "done"]
            /\ agent_event' = AgentEvent("monitor", 0, tx_hash, "timed out", "none")
            /\ UNCHANGED <<pending_transactions, notifications>>
    /\ UNCHANGED <<agent_seq, varsMock, varsReal, varsUni, varsPay, varsBuyer, varsSeller, varsRouter>>

\* GET /transaction_status/<tx_hash>.
AgentGetTransactionStatus(tx_hash, reply, aged, outcome) ==
    /\ IF tx_hash \in DOMAIN pending_transactions
       THEN /\ CheckTransactionStatus(tx_hash, reply, aged, outcome)
            /\ agent_event' = AgentEvent("transaction_status", 200, tx_hash,
                   ReturnedStatus(tx_hash, pending_transactions[tx_hash].status,
                                  reply, aged),
                   CheckNotification(tx_hash, reply, aged, outcome))
       ELSE /\ agent_event' = AgentEvent("transaction_status", 200, tx_hash, "not_found", "none")
            /\ UNCHANGED <<pending_transactions, notifications>>
    /\ UNCHANGED <<monitor_threads, agent_seq, varsMock, varsReal, varsUni, varsPay, varsBuyer, varsSeller, varsRouter>>

\* POST /confirm_tx: the manual confirmation.  The tx_hash of the JSON body
\* may be null, the key of a transaction stored without a hash.
AgentConfirmTransaction(tx_hash, outcome) ==
    /\ IF tx_hash \in DOMAIN pending_transactions
       THEN /\ NotificationCount(tx_hash) < MaxNotifications
            /\ pending_transactions' =
                   [pending_transactions EXCEPT ![tx_hash].status =
                       StatusAfterNotification("completed", outcome)]
            /\ notifications' = Put(notifications, tx_hash, NotificationCount(tx_hash) + 1)
            /\ agent_event' = AgentEvent("confirm_tx", 200, tx_hash, "confirmed", outcome)
       ELSE /\ agent_event' = AgentEvent("confirm_tx", 404, tx_hash, "not found", "none")
            /\ UNCHANGED <<pending_transactions, notifications>>
    /\ UNCHANGED <<monitor_threads, agent_seq, varsMock, varsReal, varsUni, varsPay, varsBuyer, varsSeller, varsRouter>>

\* The hashes a request can name in its URL or body: the tracked ones that
\* are strings, and one the agent does not track.
AgentHashes == ((DOMAIN pending_transactions) \ {NoneHash}) \cup {<<"tx", 0>>}

InitAgent ==
    /\ pending_transactions = EmptyMap
    /\ monitor_threads = EmptyMap
    /\ notifications = EmptyMap
    /\ agent_seq = 0
    /\ agent_event = AgentEvent("start", 0, NoneHash, "start", "none")

NextAgent ==
    \/ \E accept \in BOOLEAN, response \in PaymentResponses :
          AgentRespond(accept, response)
    \/ \E tx_hash \in DOMAIN monitor_threads, reply \in JobStatusReplies,
          aged \in BOOLEAN, outcome \in NotifyOutcomes :
          AgentMonitorStep(tx_hash, reply, aged, outcome)
    \/ \E tx_hash \in AgentHashes, reply \in JobStatusReplies, aged \in BOOLEAN,
          outcome \in NotifyOutcomes :
          AgentGetTransactionStatus(tx_hash, reply, aged, outcome)
    \/ \E tx_hash \in AgentHashes \cup {NoneHash}, outcome \in NotifyOutcomes :
          AgentConfirmTransaction(tx_hash, outcome)

---------------------------------------------------------------------------
(* The buyer agent and the router's offer store: POST /trigger and POST     *)
(* /arduino_trigger of agent A, the router's POST /arduino_trigger that     *)
(* forwards to it, and the send_offer_to_router task with the router's      *)
(* POST /receive_offer it calls.  Amounts are whole ADA.                    *)

\* The default amounts of the triggers and the amount of a counter offer.
DEFAULT_MOCK_AMOUNT == 150
DEFAULT_ARDUINO_AMOUNT == 100
COUNTER_OFFER_AMOUNT == 75
\* FALLBACK_THRESHOLD / 1000000, in ADA.
FALLBACK_THRESHOLD_ADA == 1

\* Amounts a trigger can carry; NoAmount: the request carries none.
NoAmount == -1
TriggerAmounts == {NoAmount, 0, 1, 25, 100, 150, 250}

offer_id_of(n) == <<"offer", n>>

\* `trigger.amount or default`: a missing and a zero amount give the default.
AmountOr(amount, default) == IF amount = NoAmount \/ amount = 0 THEN default ELSE amount

\* BedrockService._mock_offer_decision.
MockOfferDecision(amount) ==
    LET suggested_amount == AmountOr(amount, DEFAULT_MOCK_AMOUNT) IN
    CASE suggested_amount > 200 -> [decision |-> "reject", amount |-> 0]
      [] suggested_amount < 50 -> [decision |-> "counter_offer",
                                   amount |-> COUNTER_OFFER_AMOUNT]
      [] OTHER -> [decision |-> "accept", amount |-> suggested_amount]

\* BedrockService._fallback_offer_decision.
FallbackOfferDecision(amount) ==
    LET a == AmountOr(amount, DEFAULT_ARDUINO_AMOUNT) IN
    IF a <= FALLBACK_THRESHOLD_ADA
    THEN [decision |-> "accept", amount |-> a]
    ELSE [decision |-> "reject", amount |-> a]

\* BedrockService.create_offer_decision: without the mock the call of
\* _bedrock_offer_decision raises (the method does not exist) and the
\* fallback decides.
CreateOfferDecision(amount) ==
    IF USE_MOCK_BEDROCK THEN MockOfferDecision(amount) ELSE FallbackOfferDecision(amount)

\* `decision in ["accept", "counter_offer"]`: the offer is to be sent.
OfferIsSent(decision) == decision \in {"accept", "counter_offer"}

\* status: the status of agent A's OfferResponse (its decision), or what
\* became of the send task.  The router's answer to a forwarded trigger has
\* status forwarded and carries agent A's response.
BuyerEvent(op, code, offer_id, status, amount) ==
    [op |-> op, code |-> code, offer_id |-> offer_id, status |-> status,
     amount |-> amount]

NoOffer == <<"none", 0>>

\* trigger_offer: the offer is stored, and the send task is added to the
\* BackgroundTasks object it was handed.  scheduled: the framework runs the
\* tasks of that object after the response.
TriggerOffer(op, amount, scheduled) ==
    /\ offer_seq < MaxOffers
    /\ LET n == offer_seq + 1
           d == CreateOfferDecision(amount)
       IN
       /\ active_offers' = Put(active_offers, offer_id_of(n),
              [amount |-> d.amount, status |-> "pending"])
       /\ offer_tasks' = IF OfferIsSent(d.decision) /\ scheduled
                         THEN Put(offer_tasks, offer_id_of(n), "waiting")
                         ELSE offer_tasks
       /\ offer_seq' = n
       /\ buyer_event' = BuyerEvent(op, 200, offer_id_of(n), d.decision, d.amount)
    /\ UNCHANGED <<USE_MOCK_BEDROCK, offers_store, varsMock, varsReal, varsUni,
                   varsPay, varsAgent, varsSeller, varsRouter>>

\* POST /trigger of agent A: FastAPI hands the handler the request's
\* BackgroundTasks.
BuyerTrigger(amount) == TriggerOffer("trigger", amount, TRUE)

\* The amount agent A's /arduino_trigger reads: data.get("amount", 100.0).
ArduinoAmount(amount) == IF amount = NoAmount THEN DEFAULT_ARDUINO_AMOUNT ELSE amount

\* POST /arduino_trigger of the router, forwarded to agent A's
\* /arduino_trigger, which calls trigger_offer with a BackgroundTasks object
\* of its own: nothing ever runs the tasks added to that object.
\* agent_a_up: agent A answers 200.
RouterArduinoTrigger(amount, agent_a_up) ==
    IF agent_a_up
    THEN TriggerOffer("arduino_trigger", ArduinoAmount(amount), FALSE)
    ELSE /\ buyer_event' = BuyerEvent("arduino_trigger", 500, NoOffer, "error", 0)
         /\ UNCHANGED <<USE_MOCK_BEDROCK, active_offers, offers_store, offer_tasks,
                        offer_seq, varsMock, varsReal, varsUni, varsPay, varsAgent, varsSeller, varsRouter>>

\* What Agent B's POST /respond gives route_offer_to_agent_b: a 200 answer
\* with the decision accept, reject or counter_offer, a 200 answer without a
\* decision (unknown), or an error (another code, or the request raises).
AgentBAnswers == {"accept", "reject", "counter_offer", "unknown", "error"}

\* The amounts a counter offer of Agent B can name.
CounterAmounts == TriggerAmounts \ {NoAmount}

\* evaluate_response of agent A.  counter_offer: the amount of the counter
\* offer in the request, NoAmount when the request's counter_offer is null.
\* A counter offer within 20% above the offer is accepted, a higher one is
\* rejected; without a counter offer the decision is accept.
EvaluateResponse(amount, counter_offer) ==
    IF counter_offer # NoAmount
    THEN IF 5 * counter_offer <= 6 * amount THEN "accept" ELSE "reject"
    ELSE "accept"

\* notify_agent_a_response: the counter_offer of the evaluation request is
\* Agent B's response when its decision is counter_offer, else null.
CounterOfferOf(answer, counter) ==
    IF answer = "counter_offer" THEN counter ELSE NoAmount

\* `decision in ['reject', 'counter_offer']` in receive_offer: agent A is
\* asked to evaluate.  evaluated: agent A answers 200.
IsEvaluated(answer, evaluated) ==
    answer \in {"reject", "counter_offer"} /\ evaluated

\* The status the router's offer has when /receive_offer returns: pending
\* from create_offer, then Agent B's decision (route_offer_to_agent_b), then
\* the status of agent A's evaluation (notify_agent_a_response).
RoutedStatus(amount, answer, counter, evaluated) ==
    CASE answer = "error" -> "pending"
      [] IsEvaluated(answer, evaluated) ->
            EvaluateResponse(amount, CounterOfferOf(answer, counter))
      [] OTHER -> answer

\* The send_offer_to_router task: POST /receive_offer, where create_offer
\* stores the offer under its offer_id, Agent B is asked and, after a reject
\* or a counter offer, agent A evaluates and records its decision.
\* delivered: the request reaches the router.
SendOfferToRouter(offer_id, delivered, answer, counter, evaluated) ==
    /\ offer_id \in DOMAIN offer_tasks
    /\ offer_tasks[offer_id] = "waiting"
    /\ offer_tasks' = [offer_tasks EXCEPT ![offer_id] = "done"]
    /\ IF delivered
       THEN LET amount == active_offers[offer_id].amount
                routed == RoutedStatus(amount, answer, counter, evaluated)
            IN
            /\ offers_store' = Put(offers_store, offer_id,
                   [amount |-> amount, status |-> routed,
                    agent_b_response |-> answer])
            /\ active_offers' =
                   IF IsEvaluated(answer, evaluated)
                   THEN [active_offers EXCEPT ![offer_id].status = routed]
                   ELSE active_offers
            /\ buyer_event' = BuyerEvent("send_offer", 200, offer_id, "routed", amount)
       ELSE /\ buyer_event' = BuyerEvent("send_offer", 0, offer_id, "not sent",
                   active_offers[offer_id].amount)
            /\ UNCHANGED <<offers_store, active_offers>>
    /\ UNCHANGED <<USE_MOCK_BEDROCK, offer_seq, varsMock, varsReal,
                   varsUni, varsPay, varsAgent, varsSeller, varsRouter>>

InitBuyer ==
    /\ USE_MOCK_BEDROCK \in BOOLEAN
    /\ active_offers = EmptyMap
    /\ offers_store = EmptyMap
    /\ offer_tasks = EmptyMap
    /\ offer_seq = 0
    /\ buyer_event = BuyerEvent("start", 0, NoOffer, "start", 0)

\* The send task of one offer.
SendOffer(offer_id) ==
    \E delivered \in BOOLEAN, answer \in AgentBAnswers,
       counter \in CounterAmounts, evaluated \in BOOLEAN :
        SendOfferToRouter(offer_id, delivered, answer, counter, evaluated)

NextBuyer ==
    \/ \E amount \in TriggerAmounts : BuyerTrigger(amount)
    \/ \E amount \in TriggerAmounts, agent_a_up \in BOOLEAN :
          RouterArduinoTrigger(amount, agent_a_up)
    \/ \E n \in 1..MaxOffers : SendOffer(offer_id_of(n))

---------------------------------------------------------------------------
(* The first seller agent (AgentB/agent_b.py): POST /respond, the           *)
(* poll_and_confirm thread and POST /confirm_tx.  The hash                  *)
(* mock_tx_<seconds>_<amount> is modelled as a fresh one.                   *)

\* max_attempts of poll_transaction_status, and the attempt from which the
\* mock poll reports the confirmation.
poll_max_attempts == 10
CONFIRMING_ATTEMPT == 2

\* The statuses a POST /confirm_tx body can carry.
ConfirmStatuses == {"pending", "confirmed", "failed"}

\* displayed: send_to_arduino was called in the step.
SellerEvent(op, code, tx_hash, detail, displayed) ==
    [op |-> op, code |-> code, tx_hash |-> tx_hash, detail |-> detail,
     displayed |-> displayed]

\* POST /respond: an accepted offer is stored as pending and its polling
\* thread started.
SellerRespond(accept) ==
    /\ seller_seq < MaxSellerPayments
    /\ IF accept
       THEN LET tx_hash == <<"mock_tx", seller_seq + 1>> IN
            /\ seller_transactions' = Put(seller_transactions, tx_hash, "pending")
            /\ poll_threads' = Put(poll_threads, tx_hash,
                                   [pc |-> "running", attempt |-> 0])
            /\ seller_seq' = seller_seq + 1
            /\ seller_event' = SellerEvent("respond", 200, tx_hash, "accepted", FALSE)
       ELSE /\ seller_event' = SellerEvent("respond", 200, NoneHash, "reject", FALSE)
            /\ UNCHANGED <<seller_transactions, poll_threads, seller_seq>>
    /\ UNCHANGED <<varsMock, varsReal, varsUni, varsPay, varsAgent, varsBuyer, varsRouter>>

\* One turn of poll_transaction_status in the poll_and_confirm thread; the
\* thread sends the hash to the Arduino when the poll returns True.
SellerPollStep(tx_hash) ==
    /\ tx_hash \in DOMAIN poll_threads
    /\ poll_threads[tx_hash].pc = "running"
    /\ LET t == poll_threads[tx_hash] IN
       IF t.attempt >= poll_max_attempts
       THEN /\ poll_threads' = [poll_threads EXCEPT ![tx_hash].pc = "done"]
            /\ seller_event' = SellerEvent("poll", 0, tx_hash, "not confirmed", FALSE)
            /\ UNCHANGED seller_transactions
       ELSE IF t.attempt >= CONFIRMING_ATTEMPT
       THEN /\ seller_transactions' = [seller_transactions EXCEPT ![tx_hash] =
                                          "confirmed"]
            /\ poll_threads' = [poll_threads EXCEPT ![tx_hash].pc = "done"]
            /\ seller_event' = SellerEvent("poll", 0, tx_hash, "confirmed", TRUE)
       ELSE /\ poll_threads' = [poll_threads EXCEPT ![tx_hash].attempt = @ + 1]
            /\ seller_event' = SellerEvent("poll", 0, tx_hash, "polling", FALSE)
            /\ UNCHANGED seller_transactions
    /\ UNCHANGED <<seller_seq, varsMock, varsReal, varsUni, varsPay, varsAgent,
                   varsBuyer, varsRouter>>

\* POST /confirm_tx with a tx_hash and a status: the status of the request is
\* stored, whatever the stored one is.
SellerConfirmTransaction(tx_hash, status) ==
    /\ IF tx_hash \in DOMAIN seller_transactions
       THEN /\ seller_transactions' = [seller_transactions EXCEPT ![tx_hash] = status]
            /\ seller_event' =
                   IF status = "confirmed"
                   THEN SellerEvent("confirm_tx", 200, tx_hash, "success", TRUE)
                   ELSE SellerEvent("confirm_tx", 200, tx_hash, "updated", FALSE)
       ELSE /\ seller_event' = SellerEvent("confirm_tx", 404, tx_hash, "error", FALSE)
            /\ UNCHANGED seller_transactions
    /\ UNCHANGED <<poll_threads, seller_seq, varsMock, varsReal, varsUni, varsPay,
                   varsAgent, varsBuyer, varsRouter>>

\* The hashes a /confirm_tx body can name: the tracked ones and one more.
SellerHashes == (DOMAIN seller_transactions) \cup {<<"mock_tx", 0>>}

InitSeller ==
    /\ seller_transactions = EmptyMap
    /\ poll_threads = EmptyMap
    /\ seller_seq = 0
    /\ seller_event = SellerEvent("start", 0, NoneHash, "start", FALSE)

NextSeller ==
    \/ \E accept \in BOOLEAN : SellerRespond(accept)
    \/ \E tx_hash \in DOMAIN poll_threads : SellerPollStep(tx_hash)
    \/ \E tx_hash \in SellerHashes, status \in ConfirmStatuses :
          SellerConfirmTransaction(tx_hash, status)

---------------------------------------------------------------------------
(* The first router (Project/Project/router.py): the OfferManager with      *)
(* POST /send_offer, the thread that plays Agent B, POST /mock_agent_b and  *)
(* GET /status/<offer_id>.  An offer is modelled by its status and the      *)
(* value under its metadata key.                                            *)

\* The metadata of a request: none, or one of two maps of the caller.
NoMetadata == <<"none", 0>>
CallerMetadata == {NoMetadata, <<"caller", 1>>, <<"caller", 2>>}

\* {'tx_hash': tx_hash}, the metadata add_transaction passes on.
TransactionMetadata(n) == <<"tx_hash", n>>

\* The statuses a POST /mock_agent_b body can carry.
ResponseStatuses == {"accepted", "rejected"}

RouterEvent(op, code, offer_id, status, metadata) ==
    [op |-> op, code |-> code, offer_id |-> offer_id, status |-> status,
     metadata |-> metadata]

\* OfferManager.update_offer_status: the status is set, and the metadata
\* key is assigned when the caller passes a non-empty map.
UpdateOfferStatus(offer, status, metadata) ==
    [status |-> status,
     metadata |-> IF metadata # NoMetadata THEN metadata ELSE offer.metadata]

\* OfferManager.add_response on the offer store.
OffersAfterResponse(offers, offer_id, status) ==
    IF offer_id \in DOMAIN offers
    THEN [offers EXCEPT ![offer_id] = UpdateOfferStatus(@, status, NoMetadata)]
    ELSE offers

\* OfferManager.add_transaction on the offer store (simulate_transaction).
OffersAfterTransaction(offers, offer_id, n) ==
    IF offer_id \in DOMAIN offers
    THEN [offers EXCEPT ![offer_id] =
             UpdateOfferStatus(@, "completed", TransactionMetadata(n))]
    ELSE offers

\* simulate_transaction draws a fresh hash (uuid4) for every transaction: the
\* n-th transaction recorded has hash n.
TransactionsAfter(offer_id) == Append(router_transactions, offer_id)

\* POST /send_offer.  valid: the body passes the schema.
RouterSendOffer(metadata, valid) ==
    /\ router_seq < MaxRouterOffers
    /\ IF valid
       THEN LET offer_id == offer_id_of(router_seq + 1) IN
            /\ router_offers' = Put(router_offers, offer_id,
                   [status |-> "pending", metadata |-> metadata])
            /\ router_threads' = Put(router_threads, offer_id, "sleeping")
            /\ router_seq' = router_seq + 1
            /\ router_event' = RouterEvent("send_offer", 201, offer_id, "pending", metadata)
       ELSE /\ router_event' = RouterEvent("send_offer", 400, NoOffer, "error", NoMetadata)
            /\ UNCHANGED <<router_offers, router_threads, router_seq>>
    /\ UNCHANGED <<router_transactions, varsMock, varsReal, varsUni, varsPay,
                   varsAgent, varsBuyer, varsSeller>>

\* The simulate_agent_b_response thread: after its sleep the accepting
\* response is added, then the transaction is simulated.
RouterAgentBThread(offer_id) ==
    /\ offer_id \in DOMAIN router_threads
    /\ router_threads[offer_id] # "done"
    /\ IF router_threads[offer_id] = "sleeping"
       THEN /\ router_offers' = OffersAfterResponse(router_offers, offer_id, "accepted")
            /\ router_threads' = [router_threads EXCEPT ![offer_id] = "responded"]
            /\ router_event' = RouterEvent("agent_b_thread", 0, offer_id, "accepted",
                                           router_offers'[offer_id].metadata)
            /\ UNCHANGED router_transactions
       ELSE /\ Len(router_transactions) < MaxRouterTransactions
            /\ router_transactions' = TransactionsAfter(offer_id)
            /\ router_offers' = OffersAfterTransaction(router_offers, offer_id,
                                                       Len(router_transactions'))
            /\ router_threads' = [router_threads EXCEPT ![offer_id] = "done"]
            /\ router_event' = RouterEvent("agent_b_thread", 0, offer_id, "completed",
                                           router_offers'[offer_id].metadata)
    /\ UNCHANGED <<router_seq, varsMock, varsReal, varsUni, varsPay, varsAgent,
                   varsBuyer, varsSeller>>

\* POST /mock_agent_b: the response is added, and an accepted one is
\* followed by the simulated transaction.
RouterMockAgentB(offer_id, status) ==
    /\ status = "accepted" => Len(router_transactions) < MaxRouterTransactions
    /\ router_transactions' =
          IF status = "accepted" THEN TransactionsAfter(offer_id)
          ELSE router_transactions
    /\ router_offers' =
          LET responded == OffersAfterResponse(router_offers, offer_id, status) IN
          IF status = "accepted"
          THEN OffersAfterTransaction(responded, offer_id, Len(router_transactions'))
          ELSE responded
    /\ router_event' = RouterEvent("mock_agent_b", 201, offer_id, status, NoMetadata)
    /\ UNCHANGED <<router_threads, router_seq, varsMock, varsReal, varsUni, varsPay,
                   varsAgent, varsBuyer, varsSeller>>

\* GET /status/<offer_id>.
RouterGetOfferStatus(offer_id) ==
    /\ router_event' =
          IF offer_id \in DOMAIN router_offers
          THEN RouterEvent("status", 200, offer_id, router_offers[offer_id].status,
                           router_offers[offer_id].metadata)
          ELSE RouterEvent("status", 404, offer_id, "error", NoMetadata)
    /\ UNCHANGED <<router_offers, router_threads, router_seq, router_transactions,
                   varsMock, varsReal, varsUni, varsPay, varsAgent, varsBuyer,
                   varsSeller>>

\* The offer ids a request can name: the stored ones and one more.
RouterOfferIds == (DOMAIN router_offers) \cup {offer_id_of(0)}

InitRouter ==
    /\ router_offers = EmptyMap
    /\ router_threads = EmptyMap
    /\ router_seq = 0
    /\ router_transactions = <<>>
    /\ router_event = RouterEvent("start", 0, NoOffer, "start", NoMetadata)

NextRouter ==
    \/ \E metadata \in CallerMetadata, valid \in BOOLEAN :
          RouterSendOffer(metadata, valid)
    \/ \E offer_id \in DOMAIN router_threads : RouterAgentBThread(offer_id)
    \/ \E offer_id \in RouterOfferIds, status \in ResponseStatuses :
          RouterMockAgentB(offer_id, status)
    \/ \E offer_id \in RouterOfferIds : RouterGetOfferStatus(offer_id)

---------------------------------------------------------------------------
(* The specifications: one service runs, the others stay as constructed.    *)

\* A service that is not the one running is in one fixed configuration.
MockIdle == InitMock /\ USE_SMART_CONTRACTS = FALSE
UniIdle == InitUni /\ blockfrost_available = FALSE
PayIdle == InitPay /\ pay_mock_mode = TRUE
BuyerIdle == InitBuyer /\ USE_MOCK_BEDROCK = TRUE

MockServiceStarts == InitMock /\ InitReal /\ UniIdle /\ PayIdle /\ InitAgent /\ BuyerIdle /\ InitSeller /\ InitRouter
RealServiceStarts == MockIdle /\ InitReal /\ UniIdle /\ PayIdle /\ InitAgent /\ BuyerIdle /\ InitSeller /\ InitRouter
UniServiceStarts == MockIdle /\ InitReal /\ InitUni /\ PayIdle /\ InitAgent /\ BuyerIdle /\ InitSeller /\ InitRouter
PayServiceStarts == MockIdle /\ InitReal /\ UniIdle /\ InitPay /\ InitAgent /\ BuyerIdle /\ InitSeller /\ InitRouter
AgentStarts == MockIdle /\ InitReal /\ UniIdle /\ PayIdle /\ InitAgent /\ BuyerIdle /\ InitSeller /\ InitRouter
BuyerStarts == MockIdle /\ InitReal /\ UniIdle /\ PayIdle /\ InitAgent /\ InitBuyer /\ InitSeller /\ InitRouter
SellerStarts == MockIdle /\ InitReal /\ UniIdle /\ PayIdle /\ InitAgent /\ BuyerIdle /\ InitSeller /\ InitRouter
RouterStarts == MockIdle /\ InitReal /\ UniIdle /\ PayIdle /\ InitAgent /\ BuyerIdle /\ InitSeller /\ InitRouter

SpecMock == MockServiceStarts /\ [][NextMock]_vars

SpecReal == RealServiceStarts /\ [][NextReal]_vars

SpecUni == UniServiceStarts /\ [][NextUni]_vars

SpecPay == PayServiceStarts /\ [][NextPay]_vars

SpecAgent == AgentStarts /\ [][NextAgent]_vars

SpecBuyer == BuyerStarts /\ [][NextBuyer]_vars

SpecSeller == SellerStarts /\ [][NextSeller]_vars

SpecRouter == RouterStarts /\ [][NextRouter]_vars

\* The three services with a confirmation monitor, one of them running.
NextMonitors ==
    \/ InitSeller /\ InitAgent /\ NextReal
    \/ InitReal /\ InitAgent /\ NextSeller
    \/ InitReal /\ InitSeller /\ NextAgent

\* The event loop runs every monitor task and the interpreter every monitor
\* thread, whatever the gateway answers.
SpecMonitors ==
    /\ RealServiceStarts
    /\ [][NextMonitors]_vars
    /\ \A n \in 1..MaxRealJobs :
          WF_vars(\E poll \in Polls, latency \in PollLatencies :
                     RealMonitorRun(generate_job_id(n), poll.reply, poll.verify,
                                    latency))
    /\ \A n \in 1..MaxSellerPayments : WF_vars(SellerPollStep(<<"mock_tx", n>>))
    /\ \A n \in 1..MaxAgentPayments : \A response \in {"hash", "no_hash_key"} :
          WF_vars(\E reply \in JobStatusReplies, aged \in BOOLEAN,
                     outcome \in NotifyOutcomes :
                     AgentMonitorStep(TrackedHash(response, n), reply, aged, outcome))

\* The framework runs every task of a request's BackgroundTasks.
SpecBuyerFair ==
    SpecBuyer /\ \A n \in 1..MaxOffers : WF_vars(SendOffer(offer_id_of(n)))

\* The framework runs every background task it was handed, and a sleeping
\* task wakes: each enabled step of each process_payment task is taken.
SpecPayFair ==
    SpecPay /\ \A n \in 1..MaxPayJobs : WF_vars(PayProcess(payment_job_id(n)))

---------------------------------------------------------------------------
(* Claims about the mock payment service, checked under SpecMock. *)

\* The step is a DELETE /jobs/{job_id} for this job.
IsCancelStep(job_id) ==
    /\ mock_event'.op = "cancel_job"
    /\ mock_event'.job_id = job_id

\* C1: once a job of the mock service is confirmed, failed or cancelled, no
\* later request or background task changes its status; this covers a job
\* cancelled while its confirmation task is still sleeping.
C1_TerminalStatusIsFinal ==
    [][\A job_id \in DOMAIN mock_jobs :
         mock_jobs[job_id].status \in MockTerminal
         => /\ job_id \in DOMAIN mock_jobs'
            /\ mock_jobs'[job_id].status = mock_jobs[job_id].status]_vars

\* C5: cancel_job on a confirmed, failed or cancelled job is rejected with
\* HTTP 400 and leaves every field of the job (and the rest of the service's
\* state) unchanged; it is never a silent success.
C5_CancelOfTerminalJobRejected ==
    [][\A job_id \in DOMAIN mock_jobs :
         (IsCancelStep(job_id) /\ mock_jobs[job_id].status \in MockTerminal)
         => /\ mock_event'.code = 400
            /\ mock_jobs' = mock_jobs
            /\ UNCHANGED <<payments, mock_tasks>>]_vars

\* C5's case: a cancel of a job in a terminal status has just been answered.
C5_Witness ==
    /\ mock_event.op = "cancel_job"
    /\ mock_event.job_id \in DOMAIN mock_jobs
    /\ mock_jobs[mock_event.job_id].status \in MockTerminal
    /\ mock_event.detail \in MockTerminal

\* C6 as stated: for every job whose status is non-terminal (pending,
\* submitted or locked_to_contract) a cancel succeeds and the job's status
\* becomes cancelled.
C6_CancelOfAnyNonTerminalJobSucceeds ==
    [][\A job_id \in DOMAIN mock_jobs :
         (IsCancelStep(job_id)
          /\ mock_jobs[job_id].status \in {"pending", "submitted", "locked_to_contract"})
         => /\ mock_event'.code = 200
            /\ mock_jobs'[job_id].status = "cancelled"]_vars

\* C6, amended: a cancel of a pending job succeeds and the job's status
\* becomes cancelled, the other jobs staying as they were; a cancel of a job
\* locked to the contract is rejected with HTTP 400 and changes no job.
C6_CancelOfPendingJobSucceeds ==
    [][\A job_id \in DOMAIN mock_jobs :
         IsCancelStep(job_id) =>
           /\ mock_jobs[job_id].status = "pending" =>
                 /\ mock_event'.code = 200
                 /\ mock_jobs' = [mock_jobs EXCEPT ![job_id].status = "cancelled"]
           /\ mock_jobs[job_id].status = "locked_to_contract" =>
                 /\ mock_event'.code = 400
                 /\ mock_jobs' = mock_jobs]_vars

\* C6's case: one job has been cancelled while pending, and the cancel of
\* a job locked to the contract has just been rejected.
C6_Witness ==
    /\ mock_event.op = "cancel_job"
    /\ mock_event.code = 400
    /\ mock_event.detail = "locked_to_contract"
    /\ \E job_id \in DOMAIN mock_jobs : mock_jobs[job_id].status = "cancelled"

\* C8: with smart contracts enabled, a payment whose contract initiation
\* fails is reported to the caller as a failure and never produces a job
\* that later reaches confirmed.
C8_InitiationFailureReported ==
    /\ (mock_event.op = "send_payment" /\ mock_event.detail = "initiation_failed")
         => mock_event.code >= 400
    /\ USE_SMART_CONTRACTS =>
         \A job_id \in DOMAIN mock_jobs :
            ~mock_jobs[job_id].smart_contract
            => mock_jobs[job_id].status # "confirmed"

\* C9: every accepted payment creation stores its job under an id that is
\* not already in the store, so no existing job record is ever replaced,
\* whatever the amounts and however close in time the requests are.
C9_JobIdsNeverReused ==
    [][mock_seq' # mock_seq =>
         /\ mock_event'.job_id \notin DOMAIN mock_jobs
         /\ \A job_id \in DOMAIN mock_jobs :
              /\ job_id \in DOMAIN mock_jobs'
              /\ mock_jobs'[job_id] = mock_jobs[job_id]]_vars

C19_ErrorIffFailed ==
    \A job_id \in DOMAIN mock_jobs :
        (mock_jobs[job_id].error # NoneStr) <=> (mock_jobs[job_id].status = "failed")

---------------------------------------------------------------------------
(* Claims about the payment service, checked under SpecPay and SpecPayFair. *)

\* The step inserts one job in status pending under a new id and answers 200.
InsertsPendingJob ==
    LET job_id == pay_event'.job_id IN
    /\ pay_event'.code = 200
    /\ job_id \notin DOMAIN pay_jobs
    /\ DOMAIN pay_jobs' = (DOMAIN pay_jobs) \cup {job_id}
    /\ pay_jobs'[job_id].status = "pending"
    /\ \A other \in DOMAIN pay_jobs : pay_jobs'[other] = pay_jobs[other]

\* The step answers an error and inserts no job.
RaisesWithoutJob ==
    /\ pay_event'.code >= 400
    /\ pay_jobs' = pay_jobs
    /\ pay_tasks' = pay_tasks

\* C11 as stated: create_payment_job accepts a request exactly when
\* amount > 0 and both addresses pass validation: every such request
\* inserts one job in status pending, every other request raises an error
\* without inserting a job.
C11_AcceptsExactlyPositiveAmounts ==
    [][\A from_address \in Addresses, to_address \in Addresses, amount \in PayAmounts :
         PaySendPayment(from_address, to_address, amount) =>
           IF amount > 0 /\ _validate_address(from_address)
                         /\ _validate_address(to_address)
           THEN InsertsPendingJob
           ELSE RaisesWithoutJob]_vars

\* C11, amended: create_payment_job accepts a request exactly when
\* amount >= 1000000 (1 ADA) and both addresses pass validation: every such
\* request inserts one job in status pending, every other request raises an
\* error without inserting a job.
C11_AcceptsExactlyAmountsOfOneAda ==
    [][\A from_address \in Addresses, to_address \in Addresses, amount \in PayAmounts :
         PaySendPayment(from_address, to_address, amount) =>
           IF amount >= 1000000 /\ _validate_address(from_address)
                               /\ _validate_address(to_address)
           THEN InsertsPendingJob
           ELSE RaisesWithoutJob]_vars

\* C11's case: a request has been rejected for its amount after another was
\* accepted.
C11_Witness ==
    /\ pay_event.op = "send_payment"
    /\ pay_event.code = 400
    /\ pay_event.detail = "Amount must be at least 1 ADA"
    /\ \E job_id \in DOMAIN pay_jobs :
          pay_jobs[job_id].payment_request.amount = 1000000

\* C12: every job created through a creation entry point eventually leaves
\* its initial status and reaches a terminal status (completed or failed),
\* provided every scheduled background task is eventually run.
C12_EveryJobReachesTerminalStatus ==
    \A n \in 1..MaxPayJobs :
        (payment_job_id(n) \in DOMAIN pay_jobs)
        ~> (/\ payment_job_id(n) \in DOMAIN pay_jobs
            /\ pay_jobs[payment_job_id(n)].status \in {"completed", "failed"})

---------------------------------------------------------------------------
(* Claims about the unified payment service, checked under SpecUni. *)

\* C10: a send_payment whose amount is not positive or whose from/to
\* address fails validation is rejected as a client error (4xx, not an
\* internal server error), inserts no job and schedules no background task.
C10_InvalidRequestIsClientError ==
    [][(uni_event'.op = "send_payment"
        /\ uni_event'.detail \in {"validation", "address"})
       => /\ uni_event'.code \in 400..499
          /\ UNCHANGED <<payment_jobs, uni_tasks, uni_seq>>]_vars

---------------------------------------------------------------------------
(* Claims about the real payment service, checked under SpecReal. *)

\* The step is a run of job_id's monitor.
IsMonitorStep(job_id) ==
    /\ job_id \in DOMAIN monitors
    /\ real_event'.op = "monitor"
    /\ real_event'.job_id = job_id
    /\ monitors'[job_id] # monitors[job_id]

\* The step is a send_payment that got as far as submit_transaction.
IsSubmitStep == real_seq' # real_seq

\* C2: if the gateway reports "confirmed" for a submitted job before 300 s
\* have elapsed, the job reaches status confirmed with a non-empty tx_hash,
\* whatever else the reply holds and whether or not the Blockfrost
\* verification succeeds.  Stated on the monitor's end: a monitor that was
\* told "confirmed" in a poll (polls happen only before 300 s) and has
\* returned leaves its job confirmed with a tx_hash.
C2_ConfirmedReportConfirmsJob ==
    \A job_id \in DOMAIN monitors :
        (monitors[job_id].told_confirmed /\ monitors[job_id].pc = "done")
        => /\ active_jobs[job_id].status = "confirmed"
           /\ active_jobs[job_id].tx_hash # NoneHash

\* C3: a job whose gateway never reports confirmed or failed (also when
\* every poll raises) is moved to failed with the confirmation-timeout error
\* once the time since monitoring began reaches 300 s, and is never moved
\* to failed for timeout before that.  Stated on every run of a monitor: a
\* run that starts at 300 s or later fails the job for timeout and ends the
\* monitor; a run that starts earlier polls and does not write the timeout
\* error, and leaves a job it was told nothing terminal about submitted.
C3_TimeoutAtMaxWaitNotBefore ==
    [][\A job_id \in DOMAIN monitors :
         IsMonitorStep(job_id) =>
           LET before == monitors[job_id].elapsed
               job == active_jobs'[job_id]
           IN
           /\ before >= 300 =>
                 /\ job.status = "failed"
                 /\ job.error_message = "Transaction confirmation timeout"
                 /\ monitors'[job_id].pc = "done"
           /\ before < 300 =>
                 /\ job.error_message # "Transaction confirmation timeout"
                 /\ monitors'[job_id].pc = "sleeping" =>
                       job = active_jobs[job_id] /\ job.status = "submitted"]_vars

\* C3's case: a job has been failed for timeout.
C3_Witness ==
    \E job_id \in DOMAIN active_jobs :
        /\ active_jobs[job_id].status = "failed"
        /\ active_jobs[job_id].error_message = "Transaction confirmation timeout"
        /\ ~monitors[job_id].told_confirmed

\* The order of the statuses: pending < submitted < {confirmed, failed}.
StatusRank(status) ==
    CASE status = "pending" -> 0
      [] status = "submitted" -> 1
      [] status \in {"confirmed", "failed"} -> 2

\* C4: for every job and every interleaving of GET /tx_status with
\* send_payment and the monitor, the observed statuses never go back in the
\* order pending < submitted < {confirmed, failed}.  Stated on every step:
\* no step removes a job or moves its stored status back, and a status
\* query answers the stored status.
C4_StatusNeverRegresses ==
    [][\A job_id \in DOMAIN active_jobs :
         /\ job_id \in DOMAIN active_jobs'
         /\ StatusRank(active_jobs'[job_id].status)
              >= StatusRank(active_jobs[job_id].status)
         /\ (real_event'.op = "tx_status" /\ real_event'.job_id = job_id)
              => real_event'.detail = active_jobs'[job_id].status]_vars

\* C4's case: a status query has observed a job that the monitor had moved
\* on from submitted.
C4_Witness ==
    /\ real_event.op = "tx_status"
    /\ real_event.code = 200
    /\ real_event.detail \in {"confirmed", "failed"}
    /\ real_event.job_id \in DOMAIN monitors

\* C7: if the gateway's submit call fails, the job goes from pending
\* straight to failed with a submission error, the caller receives an error,
\* and no confirmation monitor is ever started for the job.
C7_SubmitFailureFailsJob ==
    [][/\ (IsSubmitStep /\ real_event'.detail = "raises") =>
            LET job_id == real_event'.job_id IN
            /\ job_id \notin DOMAIN active_jobs
            /\ job_id \in DOMAIN active_jobs'
            /\ active_jobs'[job_id].status = "failed"
            /\ active_jobs'[job_id].error_message = "Submission failed"
            /\ real_event'.code >= 400
       /\ \A job_id \in DOMAIN active_jobs' :
            active_jobs'[job_id].error_message = "Submission failed"
            => job_id \notin DOMAIN monitors']_vars

\* C7's case: a submission has failed and its job is stored.
C7_Witness ==
    /\ real_event.op = "send_payment"
    /\ real_event.detail = "raises"
    /\ real_event.job_id \in DOMAIN active_jobs
    /\ active_jobs[real_event.job_id].status = "failed"


\* C13 as stated: a job's tx_hash, once set to a non-empty value, never
\* changes to a different value and is never cleared.
C13_TxHashSetOnce ==
    [][\A job_id \in DOMAIN active_jobs :
         active_jobs[job_id].tx_hash # NoneHash
         => active_jobs'[job_id].tx_hash = active_jobs[job_id].tx_hash]_vars

\* C13, amended: a job's tx_hash, once set to a non-empty value, is never
\* cleared; it changes only when the monitor confirms the submitted job, to
\* the cardano_tx_hash of the gateway's reply.
C13_TxHashNeverCleared ==
    [][\A job_id \in DOMAIN active_jobs :
         active_jobs[job_id].tx_hash # NoneHash
         => /\ active_jobs'[job_id].tx_hash # NoneHash
            /\ active_jobs'[job_id].tx_hash # active_jobs[job_id].tx_hash
                 => /\ IsMonitorStep(job_id)
                    /\ active_jobs[job_id].status = "submitted"
                    /\ active_jobs'[job_id].status = "confirmed"]_vars

\* C13's case: a job has been confirmed with the hash of the gateway's
\* reply, which is none a submission returns.
C13_Witness ==
    \E job_id \in DOMAIN active_jobs :
        /\ active_jobs[job_id].status = "confirmed"
        /\ active_jobs[job_id].tx_hash = <<"tx_cardano", job_id[2]>>
        /\ monitors[job_id].pc = "done"

\* C15: every job whose status is confirmed has confirmations >= 1, in
\* every state a status query can observe.
C15_ConfirmedHasConfirmations ==
    \A job_id \in DOMAIN active_jobs :
        active_jobs[job_id].status = "confirmed"
        => active_jobs[job_id].confirmations >= 1

\* C16: a job's confirmations value never decreases over any sequence of
\* monitor updates and status queries, also when the live count read from
\* the chain is lower or cannot be read (it then reads as 0).
C16_ConfirmationsNeverDecrease ==
    [][\A job_id \in DOMAIN active_jobs :
         active_jobs'[job_id].confirmations
            >= active_jobs[job_id].confirmations]_vars

\* C16's case: a status query has answered for a confirmed job that has a
\* stored count the live reading (0 or 4) is compared with.
C16_Witness ==
    /\ real_event.op = "tx_status"
    /\ real_event.detail = "confirmed"
    /\ active_jobs[real_event.job_id].confirmations >= 1
    /\ active_jobs[real_event.job_id].tx_hash # NoneHash

C18_RaisingPollChangesNothing ==
    [][\A job_id \in DOMAIN monitors :
         (IsMonitorStep(job_id) /\ real_event'.detail = "poll raised")
         => /\ active_jobs' = active_jobs
            /\ monitors'[job_id].pc = "sleeping"]_vars

\* C18's case: a poll has raised and the monitor sleeps before its next one.
C18_Witness ==
    /\ real_event.op = "monitor"
    /\ real_event.detail = "poll raised"
    /\ monitors[real_event.job_id].pc = "sleeping"
    /\ monitors[real_event.job_id].elapsed >= 20

---------------------------------------------------------------------------
(* Claims about the seller agent.                                           *)

\* The step records this status for the transaction, which did not have it.
RecordsStatus(tx_hash, status) ==
    /\ tx_hash \in DOMAIN pending_transactions
    /\ pending_transactions[tx_hash].status # status
    /\ pending_transactions'[tx_hash].status = status

C21_CompletedNotifiedOnce ==
    \A tx_hash \in DOMAIN pending_transactions :
        pending_transactions[tx_hash].status = "completed"
            => NotificationCount(tx_hash) = 1

\* The step called handle_confirmed_transaction and a delivery failed.
NotificationFailed ==
    agent_event'.notify \in NotifyOutcomes \ {"delivered"}

\* C22: a step whose notification fails (serial write or router POST
\* raising, router answering an error) leaves the transaction recorded with
\* the terminal status the step notified about.
C22_FailedNotificationKeepsStatus ==
    [][NotificationFailed =>
          pending_transactions'[agent_event'.tx_hash].status = "completed"]_vars

\* C22 witness: the router POST raised in the monitor thread and the
\* transaction is recorded as completed.
C22_Witness ==
    /\ agent_event.op = "monitor"
    /\ agent_event.notify = "router_raises"
    /\ pending_transactions[agent_event.tx_hash].status = "completed"

\* C25: when the monitor thread has used up its polls without seeing the
\* job completed or failed, the tracked transaction is recorded as failed.
C25_MonitorTimeoutFailsTransaction ==
    agent_event.detail = "timed out"
        => pending_transactions[agent_event.tx_hash].status = "failed"

---------------------------------------------------------------------------
(* Claims about the buyer agent and the router.                             *)

\* C23: after the router's POST /arduino_trigger has answered forwarded
\* with the offer_id of an offer agent A decided to send, the router's offer
\* store eventually holds an offer with that offer_id and the same amount.
C23_ForwardedOfferReachesRouter ==
    \A n \in 1..MaxOffers : \A amount \in {COUNTER_OFFER_AMOUNT} \cup TriggerAmounts :
        (/\ buyer_event.op = "arduino_trigger" /\ buyer_event.code = 200
         /\ buyer_event.offer_id = offer_id_of(n)
         /\ OfferIsSent(buyer_event.status)
         /\ buyer_event.amount = amount)
        ~> (/\ offer_id_of(n) \in DOMAIN offers_store
            /\ offers_store[offer_id_of(n)].amount = amount)

---------------------------------------------------------------------------
(* Claims about the first seller agent.                                     *)

\* C24: a tracked transaction whose status is confirmed stays confirmed in
\* every step, of POST /confirm_tx and of the polling thread alike.
C24_ConfirmedStaysConfirmed ==
    [][\A tx_hash \in DOMAIN seller_transactions :
          seller_transactions[tx_hash] = "confirmed"
              => seller_transactions'[tx_hash] = "confirmed"]_vars

---------------------------------------------------------------------------
(* Claims about the tasks of the mock service.                              *)

\* The step is one of a background task of the mock service.
IsMockTaskStep == mock_event'.op \in {"confirm_task", "execute_task"}

---------------------------------------------------------------------------
(* Claims about the first router.                                           *)

\* C27: the metadata the caller supplied with an offer is stored unmodified
\* for the whole lifetime of the offer: no step, status updates included,
\* changes the metadata of a stored offer that has the caller's.
C27_MetadataNeverChanges ==
    [][\A offer_id \in DOMAIN router_offers :
          router_offers[offer_id].metadata \in CallerMetadata \ {NoMetadata}
              => /\ offer_id \in DOMAIN router_offers'
                 /\ router_offers'[offer_id].metadata =
                       router_offers[offer_id].metadata]_vars

---------------------------------------------------------------------------
(* Claims about the replies of the mock service.                            *)

\* C28: every reply of GET /poll/tx_status carries a tx_hash and a message
\* that is TX_CONFIRMED or TX_PENDING, and the message is TX_CONFIRMED
\* exactly when the status of the reply is confirmed.
C28_PollMessageMatchesStatus ==
    mock_event.op = "poll_tx_status"
        => /\ mock_event.tx_hash # NoneHash
           /\ mock_event.detail \in {"TX_CONFIRMED", "TX_PENDING"}
           /\ mock_event.detail = "TX_CONFIRMED" <=> mock_event.status = "confirmed"

\* C28 witness: the poll reports the latest job of the store, which was
\* cancelled, with TX_PENDING.
C28_Witness ==
    /\ mock_event.op = "poll_tx_status"
    /\ mock_event.status = "cancelled"
    /\ mock_event.detail = "TX_PENDING"
    /\ \E k \in DOMAIN mock_jobs : mock_jobs[k].status = "cancelled"

\* The step is a status query or a cancel request that names a job id the
\* store does not hold.
IsRequestOnUnknownJob ==
    /\ mock_event'.op \in {"tx_status", "cancel_job"}
    /\ mock_event'.job_id \notin DOMAIN mock_jobs

\* C29: a status query or a cancel request on a job id that is not in the
\* store is answered 404 and leaves the job store and the contract
\* service's store as they were: no job is created.
C29_UnknownJobIsNotFound ==
    [][IsRequestOnUnknownJob =>
          /\ mock_event'.code = 404
          /\ mock_jobs' = mock_jobs
          /\ payments' = payments]_vars

\* C29 witness: a cancel request on an unknown job id was answered 404
\* while the store holds another job.
C29_Witness ==
    /\ mock_event.op = "cancel_job"
    /\ mock_event.code = 404
    /\ mock_event.job_id \notin DOMAIN mock_jobs
    /\ mock_jobs # EmptyMap

---------------------------------------------------------------------------
(* Claims about the requests of the real service.                           *)

\* C30: a send_payment request of the real service whose sender balance is
\* below the amount plus 200000 lovelace is answered 400 "Insufficient
\* balance", and no job (and so no gateway transaction) is created for it.
C30_InsufficientBalanceRejected ==
    [][(/\ real_event'.op = "send_payment"
        /\ real_event'.note = "insufficient balance")
          => /\ real_event'.code = 400
             /\ real_event'.detail = "balance"
             /\ active_jobs' = active_jobs]_vars

---------------------------------------------------------------------------
(* Claims about the payments the seller agent tracks.                       *)

\* The step is a POST /respond that accepted the offer and got a 200 answer
\* with a job_id from the payment service.
IsPaidAcceptance ==
    /\ agent_event'.op = "respond"
    /\ agent_event'.detail \in PaymentResponses \ {"error"}

\* C31: whenever Agent B accepts an offer and the payment service answers
\* 200 with a job_id, the payment is recorded in pending_transactions under
\* a non-null key that no earlier payment has, and exactly one monitor thread
\* is started for it.
C31_AcceptedPaymentTracked ==
    [][IsPaidAcceptance =>
          LET tx_hash == agent_event'.tx_hash IN
          /\ tx_hash # NoneHash
          /\ tx_hash \notin DOMAIN pending_transactions
          /\ tx_hash \in DOMAIN pending_transactions'
          /\ tx_hash \notin DOMAIN monitor_threads
          /\ DOMAIN monitor_threads' = DOMAIN monitor_threads \cup {tx_hash}
      ]_vars

---------------------------------------------------------------------------
(* Claims about the transactions of the first router.                       *)

\* The hashes of the transactions recorded for an offer.
TransactionsOf(transactions, offer_id) ==
    {n \in 1..Len(transactions) : transactions[n] = offer_id}

\* C32: for every offer at most one transaction is ever recorded and, once
\* the offer is completed, its status and tx_hash never change, however the
\* Agent B thread of POST /send_offer and the POST /mock_agent_b requests for
\* the offer interleave.
C32_OneTransactionPerOffer ==
    [][\A offer_id \in DOMAIN router_offers :
          /\ Cardinality(TransactionsOf(router_transactions', offer_id)) <= 1
          /\ router_offers[offer_id].status = "completed"
                => router_offers'[offer_id] = router_offers[offer_id]
      ]_vars

---------------------------------------------------------------------------
(* Claims about the offers the router has routed.                           *)

\* C33 (as stated): an offer that Agent B rejected without a counter offer
\* never has the router status accept or completed.
C33_RejectedOfferNeverAccepted ==
    \A offer_id \in DOMAIN offers_store :
        offers_store[offer_id].agent_b_response = "reject"
            => offers_store[offer_id].status \notin {"accept", "completed"}

---------------------------------------------------------------------------
(* Claims about the execution of payments locked in the contract.           *)

\* The step is an execution task whose execute_payment succeeded.
IsExecutedStep ==
    /\ mock_tasks' # mock_tasks
    /\ mock_event'.op = "execute_task"
    /\ mock_event'.detail = "executed"

\* C34: a successful execute_payment(payment_id) spends only the contract
\* output that was locked for that payment_id: the amount released is the
\* payment's amount and the outputs locked for other payments stay locked.
C34_ExecutionSpendsOwnUtxo ==
    [][IsExecutedStep =>
          \A utxo \in contract_utxos \ contract_utxos' :
              /\ utxo.payment_id = mock_event'.job_id
              /\ utxo.amount = payments[mock_event'.job_id].amount
      ]_vars

\* The step is an execution task that called execute_payment.
IsExecutionStep ==
    /\ mock_tasks' # mock_tasks
    /\ mock_event'.op = "execute_task"
    /\ mock_event'.detail \in {"executed", "failed"}

\* C35: execute_payment succeeds only for a known payment whose status is
\* locked_to_contract, which it leaves confirmed; for an unknown id or a
\* payment in another status it fails and changes no stored payment, so a
\* payment that was executed is not executed again.
C35_ExecutesOnlyLockedPayments ==
    [][IsExecutionStep =>
          LET payment_id == mock_event'.job_id IN
          IF /\ payment_id \in DOMAIN payments
             /\ payments[payment_id].status = "locked_to_contract"
          THEN mock_event'.detail = "executed"
                  => payments'[payment_id].status = "confirmed"
          ELSE mock_event'.detail = "failed" /\ payments' = payments
      ]_vars

\* C35 witness: the execution task of a payment that was already executed
\* has failed and the payment is still recorded as confirmed.
C35_Witness ==
    /\ mock_event.op = "execute_task"
    /\ mock_event.detail = "failed"
    /\ mock_event.job_id \in DOMAIN payments
    /\ payments[mock_event.job_id].status = "confirmed"
    /\ payments[mock_event.job_id].execution_tx_hash # NoneHash

---------------------------------------------------------------------------
(* Claims about the two stores of the mock service in contract mode.        *)

\* C36: with smart contracts enabled, the job store and the payment table
\* of the contract service agree on every job they both hold: the job is
\* terminal (confirmed, failed or cancelled) in one exactly when the payment
\* is terminal (no longer locked) in the other.
C36_StoresAgreeOnTerminalJobs ==
    USE_SMART_CONTRACTS =>
        \A job_id \in DOMAIN mock_jobs \cap DOMAIN payments :
            mock_jobs[job_id].status \in {"confirmed", "failed", "cancelled"}
                <=> payments[job_id].status # "locked_to_contract"

---------------------------------------------------------------------------
(* Claims about the end of the confirmation monitors.                       *)

\* The monitor of this job or payment has returned.
HasEnded(threads, id) == id \in DOMAIN threads /\ threads[id].pc = "done"

\* C37: every confirmation monitor terminates, whatever the gateway answers:
\* the monitor of every job of the real service, the polling thread of every
\* payment of the first seller agent and the monitor thread of every payment
\* of the seller agent eventually end.
C37_EveryMonitorTerminates ==
    /\ \A n \in 1..MaxRealJobs :
          (generate_job_id(n) \in DOMAIN monitors)
              ~> HasEnded(monitors, generate_job_id(n))
    /\ \A n \in 1..MaxSellerPayments :
          (<<"mock_tx", n>> \in DOMAIN poll_threads)
              ~> HasEnded(poll_threads, <<"mock_tx", n>>)
    /\ \A n \in 1..MaxAgentPayments : \A response \in {"hash", "no_hash_key"} :
          (TrackedHash(response, n) \in DOMAIN monitor_threads)
              ~> HasEnded(monitor_threads, TrackedHash(response, n))

\* C37 witness: a monitor thread of the seller agent has ended after all its
\* polls were answered without a terminal status.
C37_Witness ==
    \E tx_hash \in DOMAIN monitor_threads :
        /\ monitor_threads[tx_hash].pc = "done"
        /\ monitor_threads[tx_hash].attempt = max_attempts
        /\ pending_transactions[tx_hash].status \notin {"completed", "failed"}

=============================================================================
